---- MODULE Spec2Model ----
(***************************************************************************)
(* Storage layer of fast-graphrag, PostgreSQL backend.                     *)
(*                                                                         *)
(* The graph store (Apache AGE property graph), the indexed key-value      *)
(* (chunk) store and the vector store are modelled by the rows their SQL   *)
(* and Cypher statements read and write.  Every statement goes through     *)
(* execute_query / pool.acquire() outside any transaction block, so each   *)
(* statement commits on its own.  Python-level behaviour of the methods    *)
(* (subscripting a None row, int() of a name, calling a TypeVar) is part   *)
(* of the model: a method either returns a value or raises.                *)
(***************************************************************************)
EXTENDS Integers, Sequences, FiniteSets, TLC

VARIABLES
    vprops,     \* graph: vertex id -> property map of the vertex
    nextVid,    \* graph: next value of the vertex id sequence
    edges,      \* graph: edge id -> [s, t, props]
    nextEid,    \* graph: next value of the edge id sequence
    ret,        \* the last store call: operation, arguments, outcome
    firstIdx,   \* history: name -> Index returned by its first upsert_node
    kv,         \* key_values table: rows [namespace, key, idx, value]
    nextIdx,    \* key_values table: next value of the idx identity sequence
    vectors,    \* vectors table: id (text) -> vector
    ins,        \* the insert in flight: phase, batch, position, what it saw at its start
    qret,       \* the last read issued by a concurrent query
    run,        \* a batch of store calls applied twice: pass, position, observations
    hist,       \* history of the table stores: contents before the last call,
                \* what the calls so far should have left, keys in insertion order
    store,      \* a store instance: config.pool_size and the _pool field
    pools,      \* the connection pools created: max_size, tasks holding a connection
    tasks,      \* concurrent store operations: position, pool in use, pool of a
                \* call made from inside an iteration
    enc,        \* an encode call of the embedder: batches, requests, attempts,
                \* sleeps finished since a batch of requests last completed
    workspace,  \* the Workspace: retained checkpoints, commits made
    rank,       \* a ranking policy call: candidates, k, result
    rag,        \* a GraphRAG construction: arguments, environment, outcome
    blob        \* the blob store: _pool, _in_progress, the blobs table, the last
                \* call and its outcome, the last blob set, the last result of get

graphVars == <<vprops, nextVid, edges, nextEid, firstIdx>>
tableVars == <<kv, nextIdx, vectors, hist>>
poolVars == <<store, pools, tasks>>
appVars == <<rag, blob>>
serviceVars == <<poolVars, enc, workspace, rank, appVars>>
vars ==
    <<vprops, nextVid, edges, nextEid, ret, firstIdx, kv, nextIdx, vectors, ins, qret, run,
      hist, store, pools, tasks, enc, workspace, rank, rag, blob>>

----------------------------------------------------------------------------
(* Bounds and input domains *)

\* cap on the edge id sequence (number of edge creations in a run)
MaxEdges == 2

Names == {"Scrooge", "London", "Ghost"}

EmptyDict == [k \in {} |-> ""]
KeyValueDict == [key |-> "value"]

\* nodes handed to upsert_node: name, type, data
NodeInputs ==
    {[name |-> n, type |-> "person", data |-> EmptyDict] : n \in Names}
        \cup {[name |-> "Scrooge", type |-> "miser", data |-> KeyValueDict]}

\* ordered (source, target) name pairs of the edges handed to the store
NamePairs ==
    {<<"Scrooge", "London">>, <<"London", "Ghost">>, <<"Ghost", "Scrooge">>}

\* edges handed to upsert_edge / insert_edges: source, target, type, data
EdgeInputs ==
    {[source |-> p[1], target |-> p[2], type |-> "lives_in", data |-> EmptyDict] :
        p \in NamePairs}
        \cup {[source |-> "Scrooge", target |-> "London", type |-> "visits",
                data |-> KeyValueDict]}

\* batches handed to insert_edges(edges=...): the empty list, one edge, two edges
EdgeBatches ==
    {<< >>} \cup {<<e>> : e \in EdgeInputs}
        \cup {<<e1, e2>> : e1 \in {e \in EdgeInputs : e.source = "Scrooge"},
                           e2 \in {e \in EdgeInputs : e.type = "lives_in"}}

\* batches handed to insert_edges(indices=...): pairs of vertex ids
IndexBatches ==
    {<< >>, <<<<1, 2>>>>, <<<<2, 1>>>>, <<<<1, 3>>>>, <<<<1, 2>>, <<2, 1>>>>}

\* index collections handed to delete_edges_by_index
DeleteBatches == {{}, {1}, {1, 2}}

\* the absent marker None where an Index is expected (ids start at 1)
NoIndex == 0

\* outcome of a call that returned normally
NoError == "none"

----------------------------------------------------------------------------
(* Apache AGE / SQL building blocks *)

\* Cypher  SET x += map : keys of the map overwrite, other keys are kept
MapMerge(old, new) ==
    [k \in DOMAIN old \cup DOMAIN new |-> IF k \in DOMAIN new THEN new[k] ELSE old[k]]

\* fetchrow: the first row of a result set (rows are scanned in id order)
FirstRow(S) == CHOOSE i \in S : \A j \in S : i <= j

\* the first row of a result set of (s, t) bindings
FirstPair(S) ==
    CHOOSE p \in S : \A q \in S : p[1] < q[1] \/ (p[1] = q[1] /\ p[2] <= q[2])

\* Cypher  (n:node_label {name: $node_name})
MatchNodes(V, name) ==
    {i \in DOMAIN V : "name" \in DOMAIN V[i] /\ V[i]["name"] = name}

\* Cypher  (s)-[r:edge_label]->(t)  for bound s and t
MatchEdges(E, s, t) == {e \in DOMAIN E : E[e].s = s /\ E[e].t = t}

\* Cypher  RETURN count(x) : an aggregate without grouping returns one row
CypherCount(S) == <<Cardinality(S)>>

----------------------------------------------------------------------------
(* PostgresGraphStorage: reads *)

\* SELECT count(*) FROM cypher(... MATCH (n:node) RETURN count(n)); result[0]
node_count(V) == Len(CypherCount(DOMAIN V))

\* SELECT count(*) FROM cypher(... MATCH ()-[r:edge]->() RETURN count(r)); result[0]
edge_count(E) == Len(CypherCount(DOMAIN E))

\* get_node: the rows  MATCH (n:node) WHERE n.name = $node_name  returns
get_node_rows(V, name) == MatchNodes(V, name)

\* get_node: (None, None) on a miss; on a hit the node is built with TNode(...),
\* and TNode is a typing.TypeVar, which is not callable
get_node(V, name) ==
    IF get_node_rows(V, name) = {}
    THEN [raised |-> NoError, found |-> FALSE, idx |-> NoIndex]
    ELSE [raised |-> "TypeError"]

\* arguments of get_edges: a node name (TId) or a node Index (TIndex)
ByName(n) == [kind |-> "name", v |-> n]
ByIndex(i) == [kind |-> "index", v |-> i]

\* int(x): an Index converts, a name that is no numeral raises ValueError
py_int(x) ==
    IF x.kind = "index" THEN [raised |-> NoError, v |-> x.v] ELSE [raised |-> "ValueError"]

\* get_edges: the rows  MATCH (s)-[r:edge]->(t) WHERE id(s) = .. AND id(t) = ..
get_edges_rows(E, sid, tid) == MatchEdges(E, sid, tid)

\* get_edges: int() of both arguments, the query, then one TEdge(...) per row;
\* row["props"]["type"] is missing on an edge stored without properties, and
\* TEdge is a typing.TypeVar, which is not callable
get_edges(E, source_node, target_node) ==
    IF py_int(source_node).raised # NoError THEN [raised |-> py_int(source_node).raised]
    ELSE IF py_int(target_node).raised # NoError THEN [raised |-> py_int(target_node).raised]
    ELSE LET rows == get_edges_rows(E, py_int(source_node).v, py_int(target_node).v)
         IN  IF rows = {} THEN [raised |-> NoError, out |-> << >>]
             ELSE IF "type" \notin DOMAIN E[FirstRow(rows)].props
                  THEN [raised |-> "KeyError"]
                  ELSE [raised |-> "TypeError"]

\* get_node_by_index: None on a miss; on a hit the node is built with TNode(...)
get_node_by_index(V, index) ==
    IF index \notin DOMAIN V
    THEN [raised |-> NoError, found |-> FALSE]
    ELSE [raised |-> "TypeError"]

\* get_edge_by_index: None on a miss; on a hit result["edge"]["type"] is read
\* off the agtype edge and the edge is built with TEdge(...), a TypeVar
get_edge_by_index_subscript(E, index) == [raised |-> "TypeError"]
get_edge_by_index(E, index) ==
    IF index \notin DOMAIN E
    THEN [raised |-> NoError, found |-> FALSE]
    ELSE [raised |-> "TypeError"]

\* get_edge_indices: int() of both arguments, then id(r) of every matched edge
get_edge_indices(E, source_node, target_node) ==
    IF py_int(source_node).raised # NoError THEN [raised |-> py_int(source_node).raised]
    ELSE IF py_int(target_node).raised # NoError THEN [raised |-> py_int(target_node).raised]
    ELSE [raised |-> NoError,
          out |-> get_edges_rows(E, py_int(source_node).v, py_int(target_node).v)]

\* are_neighbours: int() of both arguments, then  RETURN count(*) > 0
are_neighbours(E, source_node, target_node) ==
    IF py_int(source_node).raised # NoError THEN [raised |-> py_int(source_node).raised]
    ELSE IF py_int(target_node).raised # NoError THEN [raised |-> py_int(target_node).raised]
    ELSE [raised |-> NoError,
          out |-> CypherCount(get_edges_rows(E, py_int(source_node).v,
                                             py_int(target_node).v))[1] > 0]

----------------------------------------------------------------------------
(* PostgresGraphStorage: writes, as functions of the graph *)

\* upsert_node: node_data = {"name": str(name), "type": str(type), "data": dict(data)}
node_data(node) == [name |-> node.name, type |-> node.type, data |-> node.data]

\* upsert_node: MERGE (n:node {name: $node_name}) binds the vertices that carry
\* the name, or the one it creates under the next id of the sequence
upsert_node_rows_create(V, nv, node) == {nv}
upsert_node_rows(V, nv, node) ==
    IF MatchNodes(V, node.name) = {} THEN {nv} ELSE MatchNodes(V, node.name)

\* upsert_node: the vertices after  MERGE ... ON CREATE SET n += $node_data
\* ON MATCH SET n += $node_data
upsert_node_V(V, nv, node) ==
    LET rows == upsert_node_rows(V, nv, node)
        base == IF nv \in rows THEN (nv :> [name |-> node.name]) @@ V ELSE V
    IN  [i \in DOMAIN base |->
            IF i \in rows THEN MapMerge(base[i], node_data(node)) ELSE base[i]]

\* upsert_edge: edge_data = {"type": str(type), "data": dict(data)}
edge_data(edge) == [type |-> edge.type, data |-> edge.data]

\* upsert_edge: MATCH (s {name: source}), (t {name: target}) : the bound pairs
upsert_edge_pairs(V, edge) ==
    MatchNodes(V, edge.source) \X MatchNodes(V, edge.target)

\* MERGE (s)-[r:edge]->(t) with SET r += props, for one bound pair; the result
\* is the graph's edges, the edge id sequence and the id of r
MergeEdge_create(E, ne, p, props) ==
    [E |-> (ne :> [s |-> p[1], t |-> p[2], props |-> props]) @@ E,
     ne |-> ne + 1, idx |-> ne, raised |-> NoError]
MergeEdge(E, ne, p, props) ==
    IF MatchEdges(E, p[1], p[2]) = {}
    THEN [E |-> (ne :> [s |-> p[1], t |-> p[2], props |-> props]) @@ E,
          ne |-> ne + 1, idx |-> ne, raised |-> NoError]
    ELSE [E |-> [e \in DOMAIN E |->
                    IF e \in MatchEdges(E, p[1], p[2])
                    THEN [E[e] EXCEPT !.props = MapMerge(@, props)]
                    ELSE E[e]],
          ne |-> ne, idx |-> FirstRow(MatchEdges(E, p[1], p[2])), raised |-> NoError]

\* upsert_edge: no bound pair gives no row, and result["id"] on None raises
upsert_edge(V, E, ne, edge) ==
    IF upsert_edge_pairs(V, edge) = {}
    THEN [E |-> E, ne |-> ne, idx |-> NoIndex, raised |-> "TypeError"]
    ELSE MergeEdge(E, ne, FirstPair(upsert_edge_pairs(V, edge)), edge_data(edge))

\* insert_edges(indices=...), one pair: MATCH (s), (t) WHERE id(s) = .. AND
\* id(t) = .. MERGE (s)-[r:edge]->(t); result["idx"] on None raises
insert_index_pair_unmatched(V, E, ne, p) == MergeEdge(E, ne, p, EmptyDict)
insert_index_pair(V, E, ne, p) ==
    IF p[1] \in DOMAIN V /\ p[2] \in DOMAIN V
    THEN MergeEdge(E, ne, p, EmptyDict)
    ELSE [E |-> E, ne |-> ne, idx |-> NoIndex, raised |-> "TypeError"]

\* insert_edges: the loop over edges; an exception ends it, what was written stays
RECURSIVE insert_edges_loop_prepend(_, _, _, _, _)
insert_edges_loop_prepend(V, E, ne, batch, out) ==
    IF batch = << >>
    THEN [E |-> E, ne |-> ne, out |-> out, raised |-> NoError]
    ELSE LET r == upsert_edge(V, E, ne, Head(batch))
         IN  IF r.raised # NoError
             THEN [E |-> r.E, ne |-> r.ne, out |-> out, raised |-> r.raised]
             ELSE insert_edges_loop_prepend(V, r.E, r.ne, Tail(batch), <<r.idx>> \o out)
RECURSIVE insert_edges_loop(_, _, _, _, _)
insert_edges_loop(V, E, ne, batch, out) ==
    IF batch = << >>
    THEN [E |-> E, ne |-> ne, out |-> out, raised |-> NoError]
    ELSE LET r == upsert_edge(V, E, ne, Head(batch))
         IN  IF r.raised # NoError
             THEN [E |-> r.E, ne |-> r.ne, out |-> out, raised |-> r.raised]
             ELSE insert_edges_loop(V, r.E, r.ne, Tail(batch), Append(out, r.idx))

\* insert_edges: the loop over index pairs
RECURSIVE insert_indices_loop(_, _, _, _, _)
insert_indices_loop(V, E, ne, pairs, out) ==
    IF pairs = << >>
    THEN [E |-> E, ne |-> ne, out |-> out, raised |-> NoError]
    ELSE LET r == insert_index_pair(V, E, ne, Head(pairs))
         IN  IF r.raised # NoError
             THEN [E |-> r.E, ne |-> r.ne, out |-> out, raised |-> r.raised]
             ELSE insert_indices_loop(V, r.E, r.ne, Tail(pairs), Append(out, r.idx))

\* an Optional argument: None, or a list
None == [given |-> FALSE]
Some(list) == [given |-> TRUE, v |-> list]

\* truth value of an Optional list: None and the empty list are both falsy
py_bool(x) == x.given /\ x.v # << >>

\* insert_edges: "if edges: ... elif indices: ... else: raise ValueError"
insert_edges(V, E, ne, batch, pairs) ==
    IF py_bool(batch) THEN insert_edges_loop(V, E, ne, batch.v, << >>)
    ELSE IF py_bool(pairs) THEN insert_indices_loop(V, E, ne, pairs.v, << >>)
    ELSE [E |-> E, ne |-> ne, out |-> << >>, raised |-> "ValueError"]

----------------------------------------------------------------------------
(* PostgresIndexedKeyValueStorage (chunk store) *)

\* self.namespace.name of the chunk store
Namespace == "chunks"

\* the rows of the store's namespace holding one of the keys:
\* WHERE namespace = $1 AND key = ANY($2)
kv_rows(rows, ns, keys) ==
    {r \in rows : r.namespace = ns /\ \E i \in 1 .. Len(keys) : keys[i] = r.key}

\* size: SELECT COUNT(*) ... WHERE namespace = $1
size_all_namespaces(rows, ns) == Cardinality(rows)
size(rows, ns) == Cardinality({r \in rows : r.namespace = ns})

\* mask_new: [key not in existing_keys for key in keys]
mask_new_any_namespace(rows, ns, keys) ==
    [i \in 1 .. Len(keys) |-> ~\E r \in rows : r.key = keys[i]]
mask_new(rows, ns, keys) ==
    [i \in 1 .. Len(keys) |-> kv_rows(rows, ns, <<keys[i]>>) = {}]

\* get: [value_map.get(key) for key in keys]; a missing key gives None
get(rows, ns, keys) ==
    [i \in 1 .. Len(keys) |->
        IF kv_rows(rows, ns, <<keys[i]>>) = {}
        THEN [found |-> FALSE]
        ELSE [found |-> TRUE,
              value |-> (CHOOSE r \in kv_rows(rows, ns, <<keys[i]>>) : TRUE).value]]

\* INSERT ... ON CONFLICT (namespace, key) DO UPDATE SET value = EXCLUDED.value,
\* for the row (ns, key, value) proposed under identity value idx
upsert_row_insert_only(rows, ns, key, value, idx) ==
    rows \cup {[namespace |-> ns, key |-> key, idx |-> idx, value |-> value]}
upsert_row_reuse_idx(rows, ns, key, value, idx) ==
    IF \E r \in rows : r.namespace = ns /\ r.key = key
    THEN {IF r.namespace = ns /\ r.key = key THEN [r EXCEPT !.value = value] ELSE r :
            r \in rows}
    ELSE rows \cup {[namespace |-> ns, key |-> key, value |-> value,
                     idx |-> CHOOSE i \in 1 .. idx :
                                /\ \A r \in rows : r.idx # i
                                /\ \A j \in 1 .. idx :
                                      (\A r \in rows : r.idx # j) => i <= j]}
upsert_row(rows, ns, key, value, idx) ==
    IF \E r \in rows : r.namespace = ns /\ r.key = key
    THEN {IF r.namespace = ns /\ r.key = key THEN [r EXCEPT !.value = value] ELSE r :
            r \in rows}
    ELSE rows \cup {[namespace |-> ns, key |-> key, idx |-> idx, value |-> value]}

RECURSIVE upsert_rows(_, _, _, _, _)
upsert_rows(rows, nx, ns, keys, values) ==
    IF keys = << >> THEN rows
    ELSE upsert_rows(upsert_row(rows, ns, Head(keys), Head(values), nx), nx + 1, ns,
                     Tail(keys), Tail(values))

\* upsert: nothing to do for an empty list; unnest() pairs keys and values by
\* position (a shorter list is padded with NULL, which NOT NULL rejects); a key
\* proposed twice in one statement is rejected; every proposed row draws an
\* identity value, also when it ends in DO UPDATE
upsert(rows, nx, ns, keys, values) ==
    IF keys = << >> \/ values = << >>
    THEN [rows |-> rows, nx |-> nx, raised |-> NoError]
    ELSE IF Len(keys) # Len(values)
    THEN [rows |-> rows, nx |-> nx, raised |-> "NotNullViolationError"]
    ELSE IF \E i, j \in 1 .. Len(keys) : i # j /\ keys[i] = keys[j]
    THEN [rows |-> rows, nx |-> nx, raised |-> "CardinalityViolationError"]
    ELSE [rows |-> upsert_rows(rows, nx, ns, keys, values),
          nx |-> nx + Len(keys), raised |-> NoError]

\* the absent marker None where a value is expected
NoValue == [found |-> FALSE]

\* the rows of the store's namespace under one of the indices:
\* WHERE namespace = $1 AND idx = ANY($2)
kv_rows_by_index(rows, ns, indices) ==
    {r \in rows : r.namespace = ns /\ \E i \in 1 .. Len(indices) : indices[i] = r.idx}

\* get_by_index: [value_map.get(idx) for idx in indices]
get_by_index(rows, ns, indices) ==
    [i \in 1 .. Len(indices) |->
        IF kv_rows_by_index(rows, ns, <<indices[i]>>) = {}
        THEN NoValue
        ELSE [found |-> TRUE,
              value |-> (CHOOSE r \in kv_rows_by_index(rows, ns, <<indices[i]>>) : TRUE).value]]

\* get_index: [index_map.get(key) for key in keys]
get_index_reversed(rows, ns, keys) ==
    [i \in 1 .. Len(keys) |->
        IF kv_rows(rows, ns, <<keys[Len(keys) + 1 - i]>>) = {}
        THEN NoIndex
        ELSE (CHOOSE r \in kv_rows(rows, ns, <<keys[Len(keys) + 1 - i]>>) : TRUE).idx]
get_index(rows, ns, keys) ==
    [i \in 1 .. Len(keys) |->
        IF kv_rows(rows, ns, <<keys[i]>>) = {}
        THEN NoIndex
        ELSE (CHOOSE r \in kv_rows(rows, ns, <<keys[i]>>) : TRUE).idx]

\* delete: DELETE ... WHERE namespace = $1 AND key = ANY($2)
delete(rows, ns, keys) == rows \ kv_rows(rows, ns, keys)

\* upsert_by_index: nothing to do for an empty list; UPDATE key_values SET value
\* = data_table.value FROM (unnest(indices), unnest(values)) WHERE namespace =
\* $1 AND key_values.idx = data_table.idx. A values list shorter than the
\* indices pads with NULL, which NOT NULL rejects on a row it reaches. (The
\* indices of a list are pairwise different here.)
upsert_by_index(rows, ns, indices, values) ==
    LET at(r) == {i \in 1 .. Len(indices) : r.namespace = ns /\ indices[i] = r.idx}
    IN  IF indices = << >> \/ values = << >>
        THEN [rows |-> rows, raised |-> NoError]
        ELSE IF \E r \in rows : \E i \in at(r) : i > Len(values)
        THEN [rows |-> rows, raised |-> "NotNullViolationError"]
        ELSE [rows |-> {IF at(r) = {} THEN r
                        ELSE [r EXCEPT !.value = values[CHOOSE i \in at(r) : TRUE]] :
                            r \in rows},
              raised |-> NoError]

\* delete_by_index: DELETE ... WHERE namespace = $1 AND idx = ANY($2)
delete_by_index(rows, ns, indices) == rows \ kv_rows_by_index(rows, ns, indices)

----------------------------------------------------------------------------
(* PostgresVectorStorage *)

\* str(vector_id): the decimal numeral of an Index, a string as it is
py_str(x) == IF x.kind = "index" THEN ToString(x.v) ELSE x.v

\* a FLOAT4 element: 24 significant bits, so an integer beyond 2^24 keeps only
\* its even neighbour (elements are integer-valued here)
float4(x) ==
    IF -16777216 <= x /\ x <= 16777216 THEN x
    ELSE IF x > 0 THEN (x \div 2) * 2 ELSE -(((-x) \div 2) * 2)

\* vector.tolist() bound to a FLOAT4[] column
float4_array(vector) == [i \in 1 .. Len(vector) |-> float4(vector[i])]

\* np.array(row["vector"], dtype=np.float32)
np_array(list) == [i \in 1 .. Len(list) |-> float4(list[i])]

\* set: INSERT ... ON CONFLICT (id) DO UPDATE SET vector = EXCLUDED.vector
set_keep_existing(vecs, vector_id, vector) ==
    [k \in DOMAIN vecs \cup {py_str(vector_id)} |->
        IF k \in DOMAIN vecs THEN vecs[k] ELSE float4_array(vector)]
set(vecs, vector_id, vector) ==
    [k \in DOMAIN vecs \cup {py_str(vector_id)} |->
        IF k = py_str(vector_id) THEN float4_array(vector) ELSE vecs[k]]

\* get: SELECT vector ... WHERE id = $1 ; None without a row
vector_get(vecs, vector_id) ==
    IF py_str(vector_id) \in DOMAIN vecs
    THEN [found |-> TRUE, vector |-> np_array(vecs[py_str(vector_id)])]
    ELSE [found |-> FALSE]

\* get_many: SELECT id, vector ... WHERE id = ANY($1::text[]) ; the rows are
\* yielded as (row["id"], np.array(row["vector"])), row["id"] being a str
get_many(vecs, vector_ids) ==
    {[id |-> ByName(k), vector |-> np_array(vecs[k])] :
        k \in {py_str(i) : i \in vector_ids} \cap DOMAIN vecs}

\* get_all: SELECT id, vector FROM vectors, yielded like get_many's rows
get_all(vecs) ==
    {[id |-> ByName(k), vector |-> np_array(vecs[k])] : k \in DOMAIN vecs}

\* delete: DELETE ... WHERE id = $1
vector_delete_all(vecs, vector_id) == [k \in {} |-> << >>]
vector_delete(vecs, vector_id) ==
    [k \in DOMAIN vecs \ {py_str(vector_id)} |-> vecs[k]]

\* delete_many: DELETE ... WHERE id = ANY($1::text[])
delete_many(vecs, vector_ids) ==
    [k \in DOMAIN vecs \ {py_str(i) : i \in vector_ids} |-> vecs[k]]

\* clear: DELETE FROM vectors
clear_nothing(vecs) == vecs
clear(vecs) == [k \in {} |-> << >>]

----------------------------------------------------------------------------
(* State machine of the graph store *)

InitStores ==
    /\ vprops = [i \in {} |-> EmptyDict]
    /\ nextVid = 1
    /\ edges = [i \in {} |-> EmptyDict]
    /\ nextEid = 1
    /\ ret = [op |-> "init"]
    /\ firstIdx = [n \in {} |-> NoIndex]
    /\ kv = {}
    /\ nextIdx = 1
    /\ vectors = [k \in {} |-> << >>]
    /\ qret = [op |-> "init"]
    /\ hist = [vectors |-> vectors, stored |-> [i \in {} |-> << >>],
               chunks |-> [k \in {} |-> ""], log |-> << >>]

\* the value None of a store's _pool field (pools are numbered from 1)
NoPool == 0

\* no store operation is running and no pool exists
InitPoolOff ==
    /\ store = [pool_size |-> 1, pool |-> NoPool]
    /\ pools = << >>
    /\ tasks = [t \in {} |-> [pc |-> "off"]]

InitEncOff == enc = [pc |-> "off"]
InitWorkspaceOff == workspace = [pc |-> "off"]
InitRankOff == rank = [pc |-> "off"]

InitAppOff == rag = [pc |-> "off"] /\ blob = [pc |-> "off"]
InitServicesOff ==
    InitPoolOff /\ InitEncOff /\ InitWorkspaceOff /\ InitRankOff /\ InitAppOff

Init ==
    /\ InitStores
    /\ ins = [pc |-> "off"]
    /\ run = [pc |-> "off"]
    /\ InitServicesOff

\* await storage.upsert_node(node, None)
DoUpsertNode(node) ==
    /\ nextVid <= Cardinality(Names) + 1
    /\ \E i \in upsert_node_rows(vprops, nextVid, node) :
          /\ ret' = [op |-> "upsert_node", node |-> node, raised |-> NoError, idx |-> i]
          /\ firstIdx' = IF node.name \in DOMAIN firstIdx
                         THEN firstIdx
                         ELSE (node.name :> i) @@ firstIdx
    /\ vprops' = upsert_node_V(vprops, nextVid, node)
    /\ nextVid' = IF nextVid \in DOMAIN vprops' THEN nextVid + 1 ELSE nextVid
    /\ UNCHANGED <<serviceVars, edges, nextEid, tableVars>>

UpsertNode(node) == DoUpsertNode(node) /\ UNCHANGED <<serviceVars, ins, qret, run>>

\* await storage.upsert_edge(edge, None)
DoUpsertEdge(edge) ==
    LET r == upsert_edge(vprops, edges, nextEid, edge)
    IN  /\ r.ne <= MaxEdges + 1
        /\ edges' = r.E
        /\ nextEid' = r.ne
        /\ ret' = [op |-> "upsert_edge", edge |-> edge, raised |-> r.raised, idx |-> r.idx]
        /\ UNCHANGED <<serviceVars, vprops, nextVid, firstIdx, tableVars>>

UpsertEdge(edge) == DoUpsertEdge(edge) /\ UNCHANGED <<serviceVars, ins, qret, run>>

\* await storage.insert_edges(edges=batch, indices=pairs)
InsertEdges(batch, pairs) ==
    LET r == insert_edges(vprops, edges, nextEid, batch, pairs)
    IN  /\ r.ne <= MaxEdges + 1
        /\ edges' = r.E
        /\ nextEid' = r.ne
        /\ ret' = [op |-> "insert_edges", batch |-> batch, pairs |-> pairs,
                   raised |-> r.raised, out |-> r.out]
        /\ UNCHANGED <<serviceVars, vprops, nextVid, firstIdx, tableVars, ins, qret, run>>

\* await storage.delete_edges_by_index(indices): the statement text has no SQL
\* parameter ($1 stands inside the $$-quoted Cypher text) while one argument is
\* passed, so the driver rejects the call before anything is deleted
DeleteEdgesByIndex(indices) ==
    /\ ret' = [op |-> "delete_edges_by_index", indices |-> indices,
               raised |-> "InterfaceError"]
    /\ UNCHANGED <<serviceVars, graphVars, tableVars, ins, qret, run>>

Next ==
    \/ \E node \in NodeInputs : UpsertNode(node)
    \/ \E edge \in EdgeInputs : UpsertEdge(edge)
    \/ \E batch \in EdgeBatches : InsertEdges(Some(batch), None)
    \/ \E pairs \in IndexBatches : InsertEdges(None, Some(pairs))
    \/ InsertEdges(None, None)
    \/ \E indices \in DeleteBatches : DeleteEdgesByIndex(indices)

Spec == Init /\ [][Next]_vars

----------------------------------------------------------------------------
(* Chunk store and vector store calls *)

\* cap on the idx identity sequence of the key_values table
MaxIdx == 6

ChunkKeys == {"h1", "h2"}
ChunkValues == {"text a", "text b"}

\* await chunk_storage.upsert(keys, values)
DoChunkUpsert(keys, values) ==
    LET r == upsert(kv, nextIdx, Namespace, keys, values)
    IN  /\ r.nx <= MaxIdx + 1
        /\ kv' = r.rows
        /\ nextIdx' = r.nx
        /\ ret' = [op |-> "upsert", keys |-> keys, values |-> values, raised |-> r.raised]
        /\ UNCHANGED <<serviceVars, graphVars, vectors, hist>>

----------------------------------------------------------------------------
(* A batch of store calls applied twice *)

\* the chunk, node and edge calls of a batch, issued in this order
Batches ==
    {[keys |-> c[1], values |-> c[2], nodes |-> n, edges |-> e] :
        c \in {<<<< >>, << >>>>, <<<<"h1">>, <<"text a">>>>,
                <<<<"h2", "h1">>, <<"text b", "text b">>>>},
        n \in {<< >>,
                <<[name |-> "Scrooge", type |-> "miser", data |-> KeyValueDict]>>,
                <<[name |-> "London", type |-> "person", data |-> EmptyDict],
                  [name |-> "Scrooge", type |-> "person", data |-> EmptyDict]>>},
        e \in {<< >>,
                <<[source |-> "Scrooge", target |-> "London", type |-> "lives_in",
                   data |-> EmptyDict]>>,
                <<[source |-> "Ghost", target |-> "Scrooge", type |-> "lives_in",
                   data |-> EmptyDict],
                  [source |-> "Scrooge", target |-> "London", type |-> "visits",
                   data |-> KeyValueDict]>>}}

NumCalls(b) == 1 + Len(b.nodes) + Len(b.edges)

\* what the claims observe of the three stores
Counts(V, E, rows) ==
    [node_count |-> node_count(V), edge_count |-> edge_count(E),
     size |-> size(rows, Namespace),
     vertices |-> Cardinality(DOMAIN V), edges |-> Cardinality(DOMAIN E)]

InitBatch ==
    /\ InitStores
    /\ ins = [pc |-> "off"]
    /\ run = [pc |-> "setup"]
    /\ InitServicesOff

\* store contents before the batch: calls made while run.pc = "setup"
SetupCall ==
    /\ run.pc = "setup"
    /\ \/ \E node \in {n \in NodeInputs : n.name # "London"} : DoUpsertNode(node)
       \/ \E k \in ChunkKeys : DoChunkUpsert(<<k>>, <<"text a">>)
    /\ UNCHANGED <<serviceVars, ins, qret, run>>

BatchStart(b) ==
    /\ run.pc = "setup"
    /\ run' = [pc |-> "pass1", batch |-> b, pos |-> 1]
    /\ UNCHANGED <<serviceVars, graphVars, tableVars, ret, ins, qret>>

\* the next call of the batch; after the last call of a pass the stores are
\* observed, and mask_new is asked about the batch's keys
BatchCall ==
    /\ run.pc \in {"pass1", "pass2"}
    /\ LET b == run.batch
           k == run.pos
       IN  /\ \/ k = 1 /\ DoChunkUpsert(b.keys, b.values)
              \/ k - 1 \in 1 .. Len(b.nodes) /\ DoUpsertNode(b.nodes[k - 1])
              \/ k - 1 - Len(b.nodes) \in 1 .. Len(b.edges)
                    /\ DoUpsertEdge(b.edges[k - 1 - Len(b.nodes)])
           /\ run' =
                IF k < NumCalls(b) THEN [run EXCEPT !.pos = k + 1]
                ELSE IF run.pc = "pass1"
                THEN [pc |-> "pass2", batch |-> b, pos |-> 1,
                      after1 |-> Counts(vprops', edges', kv'),
                      mask |-> mask_new(kv', Namespace, b.keys)]
                ELSE [pc |-> "done", batch |-> b, after1 |-> run.after1,
                      mask |-> run.mask, after2 |-> Counts(vprops', edges', kv')]
    /\ UNCHANGED <<serviceVars, ins, qret>>

NextBatch ==
    \/ SetupCall
    \/ \E b \in Batches : BatchStart(b)
    \/ BatchCall

SpecBatch == InitBatch /\ [][NextBatch]_vars

\* C8: a second application of the same batch of upsert_node, upsert_edge and
\* chunk upsert calls leaves node_count(), edge_count() and size() (and the
\* numbers of stored vertices and edges) as the first application left them,
\* and before it mask_new is false for every chunk key of the batch
C8_SecondApplicationIdempotent ==
    run.pc = "done" =>
        /\ run.after2 = run.after1
        /\ \A i \in 1 .. Len(run.batch.keys) : run.mask[i] = FALSE

C8_Witness ==
    /\ run.pc = "done"
    /\ Len(run.batch.keys) = 2
    /\ Len(run.batch.nodes) = 2
    /\ Len(run.batch.edges) = 2
    /\ run.after2.size = 2
    /\ run.after2.vertices = 2
    /\ run.after2.edges = 1
    /\ ret.raised = NoError

----------------------------------------------------------------------------
(* Insert over the three stores, with queries running beside it *)

\* embeddings the embedding service may return
Embeddings == {<<1, 0>>, <<0, 1>>}

\* batches of extracted chunks, nodes and edges handed to insert
InsertBatches ==
    {[keys |-> <<"h1">>, values |-> <<"text a">>,
      nodes |-> <<[name |-> "Scrooge", type |-> "person", data |-> EmptyDict],
                  [name |-> "London", type |-> "person", data |-> EmptyDict]>>,
      edges |-> <<[source |-> "Scrooge", target |-> "London", type |-> "lives_in",
                   data |-> EmptyDict]>>],
     [keys |-> <<"h1", "h2">>, values |-> <<"text a", "text b">>,
      nodes |-> <<[name |-> "Scrooge", type |-> "miser", data |-> KeyValueDict]>>,
      edges |-> <<[source |-> "Ghost", target |-> "Scrooge", type |-> "lives_in",
                   data |-> EmptyDict]>>]}

\* the subsequence of seq at the positions where keep holds
RECURSIVE Select(_, _)
Select(seq, keep) ==
    IF seq = << >> THEN << >>
    ELSE IF Head(keep) THEN <<Head(seq)>> \o Select(Tail(seq), Tail(keep))
    ELSE Select(Tail(seq), Tail(keep))

Committed == [V |-> vprops, E |-> edges, kv |-> kv, vectors |-> vectors]

InFlight == {"chunks", "nodes", "edges", "vectors", "commit"}

InitInsert ==
    /\ InitStores
    /\ ins = [pc |-> "idle", snap |-> Committed]
    /\ run = [pc |-> "off"]
    /\ InitServicesOff

\* insert: a new insert starts on what the completed inserts left
InsertBegin(b) ==
    /\ ins.pc \in {"idle", "failed"}
    /\ ins' = [pc |-> "chunks", batch |-> b, pos |-> 1, idx |-> << >>, snap |-> Committed]
    /\ UNCHANGED <<serviceVars, graphVars, tableVars, ret, qret, run>>

\* insert: dedupe the chunks with mask_new and persist only the new ones
InsertChunks ==
    /\ ins.pc = "chunks"
    /\ LET new == mask_new(kv, Namespace, ins.batch.keys)
       IN  DoChunkUpsert(Select(ins.batch.keys, new), Select(ins.batch.values, new))
    /\ ins' = [ins EXCEPT !.pc = "nodes"]
    /\ UNCHANGED <<serviceVars, qret, run>>

\* insert: upsert the next node of the batch
InsertNode ==
    /\ ins.pc = "nodes"
    /\ DoUpsertNode(ins.batch.nodes[ins.pos])
    /\ ins' = [ins EXCEPT !.idx = Append(@, ret'.idx),
                          !.pos = IF ins.pos < Len(ins.batch.nodes) THEN @ + 1 ELSE 1,
                          !.pc = IF ins.pos < Len(ins.batch.nodes) THEN @ ELSE "edges"]
    /\ UNCHANGED <<serviceVars, qret, run>>

\* insert: the edge policy drops an edge with an unresolved endpoint and hands
\* the others to upsert_edge
InsertEdge ==
    /\ ins.pc = "edges"
    /\ LET edge == ins.batch.edges[ins.pos]
       IN  IF MatchNodes(vprops, edge.source) # {} /\ MatchNodes(vprops, edge.target) # {}
           THEN DoUpsertEdge(edge)
           ELSE UNCHANGED <<serviceVars, graphVars, tableVars, ret>>
    /\ ins' = [ins EXCEPT !.pos = IF ins.pos < Len(ins.batch.edges) THEN @ + 1 ELSE 1,
                          !.pc = IF ins.pos < Len(ins.batch.edges) THEN @ ELSE "vectors"]
    /\ UNCHANGED <<serviceVars, qret, run>>

\* insert: store the embedding of the next node under the node's Index
InsertVector ==
    /\ ins.pc = "vectors"
    /\ \E v \in Embeddings : vectors' = set(vectors, ByIndex(ins.idx[ins.pos]), v)
    /\ ret' = [op |-> "set", raised |-> NoError]
    /\ ins' = [ins EXCEPT !.pos = IF ins.pos < Len(ins.idx) THEN @ + 1 ELSE 1,
                          !.pc = IF ins.pos < Len(ins.idx) THEN @ ELSE "commit"]
    /\ UNCHANGED <<serviceVars, graphVars, kv, nextIdx, hist, qret, run>>

\* insert: the vector store's statement fails (connection lost, statement
\* rejected); the exception leaves set and the insert, nothing is undone
InsertVectorFails ==
    /\ ins.pc = "vectors"
    /\ ret' = [op |-> "set", raised |-> "PostgresError"]
    /\ ins' = [ins EXCEPT !.pc = "failed"]
    /\ UNCHANGED <<serviceVars, graphVars, tableVars, qret, run>>

\* insert: the insert is complete
InsertCommit ==
    /\ ins.pc = "commit"
    /\ ins' = [pc |-> "idle", snap |-> Committed]
    /\ UNCHANGED <<serviceVars, graphVars, tableVars, ret, qret, run>>

\* a query reads chunks: await chunk_storage.get(keys)
QueryGet(keys) ==
    /\ ins.pc # "off"
    /\ qret' = [op |-> "get", keys |-> keys, inflight |-> ins.pc \in InFlight,
                out |-> get(kv, Namespace, keys),
                committed |-> get(ins.snap.kv, Namespace, keys)]
    /\ UNCHANGED <<serviceVars, graphVars, tableVars, ret, ins, run>>

\* a query resolves a node: await graph_storage.get_node(name)
QueryGetNode(name) ==
    /\ ins.pc # "off"
    /\ qret' = [op |-> "get_node", name |-> name, inflight |-> ins.pc \in InFlight,
                out |-> get_node(vprops, name),
                committed |-> get_node(ins.snap.V, name)]
    /\ UNCHANGED <<serviceVars, graphVars, tableVars, ret, ins, run>>

NextInsert ==
    \/ \E b \in InsertBatches : InsertBegin(b)
    \/ InsertChunks
    \/ InsertNode
    \/ InsertEdge
    \/ InsertVector
    \/ InsertVectorFails
    \/ InsertCommit
    \/ \E keys \in {<<"h1">>, <<"h2", "h1">>} : QueryGet(keys)
    \/ \E name \in {"Scrooge", "Ghost"} : QueryGetNode(name)

SpecInsert == InitInsert /\ [][NextInsert]_vars

\* C6: after an insert that failed at a vector store write, node_count(),
\* edge_count(), the stored vectors and the chunk store contents are what they
\* were before the insert
C6_FailedInsertLeavesNoWrite ==
    ins.pc = "failed" =>
        /\ node_count(vprops) = node_count(ins.snap.V)
        /\ edge_count(edges) = edge_count(ins.snap.E)
        /\ vectors = ins.snap.vectors
        /\ kv = ins.snap.kv

\* C7: a query running beside an insert in flight reads what the completed
\* inserts left, nothing the insert in flight has written
C7_QuerySeesCommittedOnly ==
    (qret.op # "init" /\ qret.inflight) => qret.out = qret.committed

----------------------------------------------------------------------------
(* Claims about the graph store *)

EndpointsExist(V, edge) ==
    MatchNodes(V, edge.source) # {} /\ MatchNodes(V, edge.target) # {}

DistinctPairs(batch) ==
    \A i, j \in 1 .. Len(batch) :
        i # j => <<batch[i].source, batch[i].target>> # <<batch[j].source, batch[j].target>>

\* C1: after upsert_node calls, node_count() is the number of distinct names
\* that have been upserted
C1_NodeCountIsDistinctNames ==
    ret.op = "upsert_node" => node_count(vprops) = Cardinality(DOMAIN firstIdx)

\* C2: a batch of edges on pairwise different (source, target) pairs, all
\* between existing nodes, inserted into a graph without edges, makes
\* edge_count() the number of edges of the batch
C2_EdgeCountIsBatchSize ==
    [][\A batch \in EdgeBatches :
          (/\ InsertEdges(Some(batch), None)
           /\ batch # << >>
           /\ DOMAIN edges = {}
           /\ DistinctPairs(batch)
           /\ \A i \in 1 .. Len(batch) : EndpointsExist(vprops, batch[i]))
          => edge_count(edges') = Len(batch)]_vars

\* C3: upsert_edge with a missing endpoint returns without raising, stores no
\* edge and leaves edge_count() unchanged
C3_MissingEndpointNoRaise ==
    [][\A edge \in EdgeInputs :
          (UpsertEdge(edge) /\ ~EndpointsExist(vprops, edge))
          => /\ ret'.raised = NoError
             /\ edges' = edges
             /\ edge_count(edges') = edge_count(edges)]_vars

\* C4: every upserted name has exactly one Index: an upsert of a present name
\* returns the Index of its first upsert and leaves node_count() (and the
\* stored vertices' ids) unchanged, and different names have different Indexes
C4_IndexPerName ==
    /\ \A n \in DOMAIN firstIdx :
          {i \in DOMAIN vprops : vprops[i]["name"] = n} = {firstIdx[n]}
    /\ \A n, m \in DOMAIN firstIdx : firstIdx[n] = firstIdx[m] => n = m
    /\ ret.op = "upsert_node" => ret.idx = firstIdx[ret.node.name]

C4_ReupsertKeepsCount ==
    [][\A node \in NodeInputs :
          (UpsertNode(node) /\ node.name \in DOMAIN firstIdx)
          => /\ node_count(vprops') = node_count(vprops)
             /\ DOMAIN vprops' = DOMAIN vprops]_vars

C4_StableIndex == []C4_IndexPerName /\ C4_ReupsertKeepsCount

C4_Witness ==
    /\ ret.op = "upsert_node"
    /\ Cardinality(DOMAIN vprops) = 2
    /\ nextVid = 3
    /\ vprops[ret.idx]["type"] = "miser"
    /\ ret.idx = 1

C9_NodeRoundTrip ==
    ret.op = "upsert_node" =>
        LET g == get_node(vprops, ret.node.name)
        IN  /\ g.raised = NoError
            /\ g.found
            /\ g.idx = ret.idx
            /\ vprops[g.idx] = node_data(ret.node)

\* C10: upsert_edge(e, None) followed by get_edges(e.source, e.target), called
\* with the two node names, returns exactly one (edge, index) pair: the index
\* upsert_edge returned and e's source, target, type and data
C10_EdgeRoundTrip ==
    (ret.op = "upsert_edge" /\ EndpointsExist(vprops, ret.edge)) =>
        LET g == get_edges(edges, ByName(ret.edge.source), ByName(ret.edge.target))
        IN  /\ g.raised = NoError
            /\ Len(g.out) = 1
            /\ g.out[1].idx = ret.idx
            /\ g.out[1].edge = ret.edge

\* C11: are_neighbours(source, target), called with the two node names, is true
\* exactly when an edge from source to target is stored, that is exactly when
\* get_edge_indices(source, target) is not empty
C11_NeighboursIffEdgeStored ==
    \A s, t \in DOMAIN firstIdx :
        LET a == are_neighbours(edges, ByName(s), ByName(t))
            g == get_edge_indices(edges, ByName(s), ByName(t))
        IN  /\ a.raised = NoError
            /\ g.raised = NoError
            /\ a.out = (MatchEdges(edges, firstIdx[s], firstIdx[t]) # {})
            /\ a.out = (g.out # {})

\* C11, by Index: with the two node Indexes are_neighbours is true exactly when
\* get_edge_indices is not empty
C11_NeighboursByIndex ==
    \A s, t \in DOMAIN vprops :
        LET a == are_neighbours(edges, ByIndex(s), ByIndex(t))
            g == get_edge_indices(edges, ByIndex(s), ByIndex(t))
        IN  /\ a.raised = NoError
            /\ g.raised = NoError
            /\ a.out = (g.out # {})

----------------------------------------------------------------------------
(* State machine of the vector store *)

\* embedding_dim handed to create_storage_backend
EmbeddingDim == 2

\* ids handed to the vector store: node Indexes, and a string as in the tests
VectorIds == {ByIndex(1), ByIndex(2), ByName("test1")}

\* float32 arrays handed to set: of the configured dimension, and one longer
VectorInputs == Embeddings \cup {<<16777218, 0>>, <<1, 2, 3>>}

\* id collections handed to delete_many
IdBatches ==
    {{}, {ByIndex(1)}, {ByIndex(1), ByName("test1")}, {ByIndex(2), ByName("test1")}}

\* await storage.set(vector_id, vector)
VectorSet(vector_id, vector) ==
    /\ vectors' = set(vectors, vector_id, vector)
    /\ ret' = [op |-> "set", id |-> vector_id, vector |-> vector, raised |-> NoError]
    /\ hist' = [hist EXCEPT !.vectors = vectors,
                            !.stored = (vector_id :> vector) @@ @]
    /\ UNCHANGED <<serviceVars, graphVars, kv, nextIdx, ins, qret, run>>

\* await storage.delete(vector_id)
VectorDelete(vector_id) ==
    /\ vectors' = vector_delete(vectors, vector_id)
    /\ ret' = [op |-> "delete", ids |-> {vector_id}, raised |-> NoError]
    /\ hist' = [hist EXCEPT !.vectors = vectors,
                            !.stored = [i \in DOMAIN @ \ {vector_id} |-> @[i]]]
    /\ UNCHANGED <<serviceVars, graphVars, kv, nextIdx, ins, qret, run>>

\* await storage.delete_many(vector_ids)
VectorDeleteMany(vector_ids) ==
    /\ vectors' = delete_many(vectors, vector_ids)
    /\ ret' = [op |-> "delete_many", ids |-> vector_ids, raised |-> NoError]
    /\ hist' = [hist EXCEPT !.vectors = vectors,
                            !.stored = [i \in DOMAIN @ \ vector_ids |-> @[i]]]
    /\ UNCHANGED <<serviceVars, graphVars, kv, nextIdx, ins, qret, run>>

\* await storage.clear()
VectorClear ==
    /\ vectors' = clear(vectors)
    /\ ret' = [op |-> "clear", raised |-> NoError]
    /\ hist' = [hist EXCEPT !.vectors = vectors, !.stored = [i \in {} |-> << >>]]
    /\ UNCHANGED <<serviceVars, graphVars, kv, nextIdx, ins, qret, run>>

\* a similarity search on the store: the class defines no query, get_knn or
\* score_all method, so the call ends in the attribute lookup or in whatever
\* the base class provides for a method a backend does not implement
VectorQuery(vector, k) ==
    /\ \E e \in {"AttributeError", "NotImplementedError"} :
          ret' = [op |-> "query", vector |-> vector, k |-> k, raised |-> e]
    /\ hist' = [hist EXCEPT !.vectors = vectors]
    /\ UNCHANGED <<serviceVars, graphVars, kv, nextIdx, vectors, ins, qret, run>>

NextVector ==
    \/ \E vector_id \in VectorIds, vector \in VectorInputs : VectorSet(vector_id, vector)
    \/ \E vector_id \in VectorIds : VectorDelete(vector_id)
    \/ \E vector_ids \in IdBatches : VectorDeleteMany(vector_ids)
    \/ VectorClear
    \/ \E vector \in Embeddings, k \in 1 .. 2 : VectorQuery(vector, k)

SpecVector == Init /\ [][NextVector]_vars

\* C12: get(id) returns the vector most recently stored under id, and the
\* store holds one entry for every stored id
C12_GetReturnsLastStored ==
    /\ ret.op = "set" =>
          vector_get(vectors, ret.id) = [found |-> TRUE, vector |-> ret.vector]
    /\ \A i \in DOMAIN hist.stored :
          /\ vector_get(vectors, i) = [found |-> TRUE, vector |-> hist.stored[i]]
          /\ Cardinality({y \in get_all(vectors) : y.id = ByName(py_str(i))}) = 1

C12_Witness ==
    /\ ret.op = "set"
    /\ py_str(ret.id) \in DOMAIN hist.vectors
    /\ hist.vectors[py_str(ret.id)] # vectors[py_str(ret.id)]
    /\ Cardinality(DOMAIN vectors) = 2

\* C13: set with a vector whose length is not the configured embedding
\* dimension fails and leaves the store as it was
C13_DimensionMismatchRejected ==
    (ret.op = "set" /\ Len(ret.vector) # EmbeddingDim) =>
        /\ ret.raised # NoError
        /\ vectors = hist.vectors

\* C14: after delete or delete_many, get finds none of the deleted ids and
\* get_many over them yields nothing, every other id keeps its vector, and
\* deleting ids that are not stored changes nothing
C14_DeleteRemovesOnlyNamed ==
    ret.op \in {"delete", "delete_many"} =>
        /\ \A i \in ret.ids : ~vector_get(vectors, i).found
        /\ get_many(vectors, ret.ids) = {}
        /\ \A i \in VectorIds \ ret.ids :
              vector_get(vectors, i) = vector_get(hist.vectors, i)
        /\ (\A i \in ret.ids : ~vector_get(hist.vectors, i).found)
              => vectors = hist.vectors

C14_Witness ==
    /\ ret.op = "delete"
    /\ Cardinality(DOMAIN hist.vectors) = 3
    /\ Cardinality(DOMAIN vectors) = 2

\* C15: after clear, get_all and get_many yield nothing and get finds no id
C15_ClearEmptiesStore ==
    ret.op = "clear" =>
        /\ get_all(vectors) = {}
        /\ get_many(vectors, VectorIds) = {}
        /\ \A i \in VectorIds : ~vector_get(vectors, i).found

C15_Witness ==
    /\ ret.op = "clear"
    /\ Cardinality(DOMAIN hist.vectors) = 3
    /\ DOMAIN vectors = {}

\* C16: get_all yields exactly the stored ids, each once, under the id value
\* it was stored with and with its most recently stored vector
C16_GetAllYieldsStored ==
    get_all(vectors) = {[id |-> i, vector |-> hist.stored[i]] : i \in DOMAIN hist.stored}

\* C17: query(vector, k) returns at most k (id, score) pairs, ranked from most
\* to least similar, and every returned id is stored
C17_QueryReturnsRankedStored ==
    ret.op = "query" =>
        /\ ret.raised = NoError
        /\ Len(ret.out) <= ret.k
        /\ \A j \in 1 .. Len(ret.out) : vector_get(vectors, ret.out[j].id).found
        /\ \A j \in 1 .. Len(ret.out) - 1 : ret.out[j].score >= ret.out[j + 1].score

----------------------------------------------------------------------------
(* State machine of the indexed key-value store *)

\* cap on the idx identity sequence in the runs of this state machine
MaxChunkIdx == 3

\* namespaces sharing the key_values table
Namespaces == {Namespace, "entities"}

\* key lists handed to get, get_index, mask_new and delete
KeyLists == {<< >>, <<"h1">>, <<"h2">>, <<"h2", "h1">>, <<"h1", "h1">>}

\* index lists handed to get_by_index and delete_by_index
IndexLists == {<< >>, <<1>>, <<2>>, <<2, 1>>, <<3, 3>>}

\* (keys, values) handed to upsert
UpsertInputs ==
    {<<<< >>, << >>>>, <<<<"h1">>, <<"text a">>>>, <<<<"h1">>, <<"text b">>>>,
     <<<<"h2">>, <<"text a">>>>, <<<<"h2", "h1">>, <<"text b", "text b">>>>,
     <<<<"h1", "h1">>, <<"text a", "text b">>>>, <<<<"h1", "h2">>, <<"text a">>>>}

\* the Index a key received at its latest insertion
LastIdx(log, ns, key) ==
    LET at == {i \in 1 .. Len(log) : log[i].namespace = ns /\ log[i].key = key}
    IN  log[CHOOSE i \in at : \A j \in at : j <= i].idx

\* the keys of a namespace an upsert, delete or delete_by_index should leave
Present(ns) == {key \in ChunkKeys : <<ns, key>> \in DOMAIN hist.chunks}

\* await storage.upsert(keys, values), the store bound to namespace ns
ChunkUpsert(ns, keys, values) ==
    LET r == upsert(kv, nextIdx, ns, keys, values)
        done == r.raised = NoError /\ keys # << >> /\ values # << >>
        new == Select(keys, [i \in 1 .. Len(keys) |-> keys[i] \notin Present(ns)])
    IN  /\ r.nx <= MaxChunkIdx + 1
        /\ kv' = r.rows
        /\ nextIdx' = r.nx
        /\ ret' = [op |-> "upsert", namespace |-> ns, raised |-> r.raised]
        /\ hist' =
            IF ~done THEN hist
            ELSE [hist EXCEPT
                    !.chunks =
                        [k \in DOMAIN @ \cup {<<ns, keys[i]>> : i \in 1 .. Len(keys)} |->
                            IF \E i \in 1 .. Len(keys) : k = <<ns, keys[i]>>
                            THEN values[CHOOSE i \in 1 .. Len(keys) : k = <<ns, keys[i]>>]
                            ELSE @[k]],
                    !.log = @ \o
                        [i \in 1 .. Len(new) |->
                            [namespace |-> ns, key |-> new[i],
                             idx |-> (CHOOSE row \in r.rows :
                                        row.namespace = ns /\ row.key = new[i]).idx]]]
        /\ UNCHANGED <<serviceVars, graphVars, vectors, ins, qret, run>>

\* await storage.delete(keys)
ChunkDelete(ns, keys) ==
    /\ kv' = delete(kv, ns, keys)
    /\ ret' = [op |-> "delete", namespace |-> ns, raised |-> NoError]
    /\ hist' = [hist EXCEPT
                  !.chunks = [k \in DOMAIN @ \ {<<ns, keys[i]>> : i \in 1 .. Len(keys)} |->
                                @[k]]]
    /\ UNCHANGED <<serviceVars, graphVars, nextIdx, vectors, ins, qret, run>>

\* await storage.delete_by_index(indices)
ChunkDeleteByIndex(ns, indices) ==
    /\ kv' = delete_by_index(kv, ns, indices)
    /\ ret' = [op |-> "delete_by_index", namespace |-> ns, raised |-> NoError]
    /\ hist' = [hist EXCEPT
                  !.chunks =
                    [k \in DOMAIN @ \
                        {<<ns, key>> : key \in
                            {x \in Present(ns) : \E i \in 1 .. Len(indices) :
                                indices[i] = LastIdx(hist.log, ns, x)}} |-> @[k]]]
    /\ UNCHANGED <<serviceVars, graphVars, nextIdx, vectors, ins, qret, run>>

NextChunk ==
    \/ \E ns \in Namespaces, kvs \in UpsertInputs : ChunkUpsert(ns, kvs[1], kvs[2])
    \/ \E ns \in Namespaces, keys \in KeyLists : ChunkDelete(ns, keys)
    \/ \E ns \in Namespaces, indices \in IndexLists : ChunkDeleteByIndex(ns, indices)

SpecChunk == Init /\ [][NextChunk]_vars

\* C18: mask_new(keys) has one element per key, in the order of keys, true
\* exactly for the keys absent from the namespace (never upserted, or deleted
\* since); mask_new([]) is []
C18_MaskNewMarksAbsent ==
    \A ns \in Namespaces, keys \in KeyLists :
        LET m == mask_new(kv, ns, keys)
        IN  /\ DOMAIN m = 1 .. Len(keys)
            /\ \A i \in 1 .. Len(keys) : m[i] = (keys[i] \notin Present(ns))

C18_Witness ==
    /\ ret.op = "delete"
    /\ mask_new(kv, Namespace, <<"h2", "h1">>) = <<FALSE, TRUE>>
    /\ mask_new(kv, "entities", <<"h2", "h1">>) = <<TRUE, FALSE>>
    /\ \E i \in 1 .. Len(hist.log) :
          hist.log[i].namespace = Namespace /\ hist.log[i].key = "h1"

\* C19: get, get_by_index and get_index return one element per input element,
\* in input order, also for repeated elements; the element of a missing key or
\* index is None, and missing elements do not make the call fail
C19_BatchReadsKeepOrder ==
    \A ns \in Namespaces :
        /\ \A keys \in KeyLists :
              /\ DOMAIN get(kv, ns, keys) = 1 .. Len(keys)
              /\ DOMAIN get_index(kv, ns, keys) = 1 .. Len(keys)
              /\ \A i \in 1 .. Len(keys) :
                    IF keys[i] \in Present(ns)
                    THEN /\ get(kv, ns, keys)[i] =
                               [found |-> TRUE, value |-> hist.chunks[<<ns, keys[i]>>]]
                         /\ get_index(kv, ns, keys)[i] = LastIdx(hist.log, ns, keys[i])
                    ELSE /\ get(kv, ns, keys)[i] = NoValue
                         /\ get_index(kv, ns, keys)[i] = NoIndex
        /\ \A indices \in IndexLists :
              /\ DOMAIN get_by_index(kv, ns, indices) = 1 .. Len(indices)
              /\ \A i \in 1 .. Len(indices) :
                    LET at == {key \in Present(ns) :
                                  LastIdx(hist.log, ns, key) = indices[i]}
                    IN  IF at = {}
                        THEN get_by_index(kv, ns, indices)[i] = NoValue
                        ELSE \A key \in at :
                                get_by_index(kv, ns, indices)[i] =
                                    [found |-> TRUE, value |-> hist.chunks[<<ns, key>>]]

C19_Witness ==
    /\ ret.op = "upsert"
    /\ ret.raised = NoError
    /\ get_index(kv, Namespace, <<"h2", "h1">>) = <<3, NoIndex>>
    /\ get_index(kv, Namespace, <<"h1", "h1">>) = <<NoIndex, NoIndex>>
    /\ get_by_index(kv, "entities", <<2, 1>>)[1].found
    /\ ~get_by_index(kv, "entities", <<2, 1>>)[2].found
    /\ get(kv, "entities", <<"h2", "h1">>) = <<NoValue, [found |-> TRUE, value |-> "text b"]>>

\* C20: a key inserted later receives a strictly larger Index than every key
\* inserted earlier, also after deletions, and for every stored key k
\* get_by_index(get_index([k])) is get([k])
C20_IndexIncreasesWithInsertion ==
    /\ \A i, j \in 1 .. Len(hist.log) : i < j => hist.log[i].idx < hist.log[j].idx
    /\ \A ns \in Namespaces : \A key \in Present(ns) :
          /\ get(kv, ns, <<key>>)[1].found
          /\ get_by_index(kv, ns, get_index(kv, ns, <<key>>)) = get(kv, ns, <<key>>)

C20_Witness ==
    /\ ret.op = "upsert"
    /\ Len(hist.log) = 3
    /\ hist.log[1].key = hist.log[3].key
    /\ hist.log[1].namespace = hist.log[3].namespace
    /\ hist.log[3].key \in Present(hist.log[3].namespace)
    /\ hist.log[2].key \in Present(hist.log[2].namespace)

\* C35: the table holds at most one row per (namespace, key), and size() of
\* a store is the number of keys upserted in its namespace and not deleted
\* since, whatever the other namespace holds
C35_OneEntryPerKeyAndSize ==
    /\ \A r1, r2 \in kv :
          (r1.namespace = r2.namespace /\ r1.key = r2.key) => r1 = r2
    /\ \A ns \in Namespaces : size(kv, ns) = Cardinality(Present(ns))

C35_Witness ==
    /\ ret.op = "delete"
    /\ size(kv, Namespace) = 1
    /\ size(kv, "entities") = 0
    /\ Cardinality(kv) = 1
    /\ \E i \in 1 .. Len(hist.log) : hist.log[i].namespace = "entities"
    /\ Len(hist.log) = 3

\* (indices, values) handed to upsert_by_index
IndexValueInputs ==
    {<<<< >>, << >>>>, <<<<1>>, <<"text b">>>>, <<<<2, 1>>, <<"text a", "text b">>>>,
     <<<<3>>, <<"text a">>>>, <<<<1, 2>>, <<"text a">>>>}

\* await storage.upsert_by_index(indices, values)
ChunkUpsertByIndex(ns, indices, values) ==
    LET r == upsert_by_index(kv, ns, indices, values)
    IN  /\ kv' = r.rows
        /\ ret' = [op |-> "upsert_by_index", namespace |-> ns, raised |-> r.raised]
        /\ hist' = [hist EXCEPT
                      !.chunks = [k \in DOMAIN @ |->
                                    (CHOOSE row \in r.rows :
                                        row.namespace = k[1] /\ row.key = k[2]).value]]
        /\ UNCHANGED <<serviceVars, graphVars, nextIdx, vectors, ins, qret, run>>

NextChunkIndex ==
    \/ NextChunk
    \/ \E ns \in Namespaces, ivs \in IndexValueInputs : ChunkUpsertByIndex(ns, ivs[1], ivs[2])

SpecChunkIndex == Init /\ [][NextChunkIndex]_vars

\* C36: after upsert_by_index(indices, values), with as many values as
\* indices, get_by_index(indices) returns the values, also for an index that
\* held no entry before
C36_UpsertByIndexStoresValues ==
    [][\A ns \in Namespaces, ivs \in IndexValueInputs :
          (ChunkUpsertByIndex(ns, ivs[1], ivs[2]) /\ Len(ivs[1]) = Len(ivs[2])) =>
              /\ ret'.raised = NoError
              /\ get_by_index(kv', ns, ivs[1]) =
                    [i \in 1 .. Len(ivs[1]) |-> [found |-> TRUE, value |-> ivs[2][i]]]]_vars

\* the part of C36 the store keeps: the indices that hold an entry of the
\* namespace get their values, and no other row changes
C36_UpdatesExistingEntries ==
    [][\A ns \in Namespaces, ivs \in IndexValueInputs :
          (ChunkUpsertByIndex(ns, ivs[1], ivs[2]) /\ Len(ivs[1]) = Len(ivs[2])) =>
              /\ ret'.raised = NoError
              /\ \A i \in 1 .. Len(ivs[1]) :
                    get_by_index(kv, ns, <<ivs[1][i]>>)[1].found =>
                        get_by_index(kv', ns, <<ivs[1][i]>>)[1] =
                            [found |-> TRUE, value |-> ivs[2][i]]
              /\ {[namespace |-> r.namespace, key |-> r.key, idx |-> r.idx] : r \in kv'}
                    = {[namespace |-> r.namespace, key |-> r.key, idx |-> r.idx] : r \in kv}]_vars

----------------------------------------------------------------------------
(* Claims about insert_edges *)

\* the vertex that carries a name
VertexOf(V, name) == CHOOSE i \in DOMAIN V : V[i]["name"] = name

C23_ValueErrorOnlyWithoutArguments ==
    [][\A batch \in {None} \cup {Some(b) : b \in EdgeBatches},
          pairs \in {None} \cup {Some(b) : b \in IndexBatches} :
          InsertEdges(batch, pairs) =>
            /\ (ret'.raised = "ValueError") = (~batch.given /\ ~pairs.given)
            /\ ret'.raised = "ValueError" => edges' = edges
            /\ (ret'.raised = NoError /\ batch.given) => Len(ret'.out) = Len(batch.v)
            /\ (ret'.raised = NoError /\ ~batch.given /\ pairs.given)
                  => Len(ret'.out) = Len(pairs.v)]_vars

----------------------------------------------------------------------------
(* Lookups on the graph store and the vector store *)

\* await graph_storage.get_node(name)
GetNode(name) ==
    /\ ret' = [op |-> "get_node", name |-> name, out |-> get_node(vprops, name)]
    /\ UNCHANGED <<serviceVars, graphVars, tableVars, ins, qret, run>>

\* await graph_storage.get_node_by_index(index)
GetNodeByIndex(index) ==
    /\ ret' = [op |-> "get_node_by_index", index |-> index,
               out |-> get_node_by_index(vprops, index)]
    /\ UNCHANGED <<serviceVars, graphVars, tableVars, ins, qret, run>>

\* await graph_storage.get_edge_by_index(index)
GetEdgeByIndex(index) ==
    /\ ret' = [op |-> "get_edge_by_index", index |-> index,
               out |-> get_edge_by_index(edges, index)]
    /\ UNCHANGED <<serviceVars, graphVars, tableVars, ins, qret, run>>

\* await entity_storage.get(vector_id)
VectorGet(vector_id) ==
    /\ ret' = [op |-> "get", id |-> vector_id, raised |-> NoError,
               out |-> vector_get(vectors, vector_id)]
    /\ UNCHANGED <<serviceVars, graphVars, tableVars, ins, qret, run>>

NextLookup ==
    \/ \E node \in NodeInputs : UpsertNode(node)
    \/ \E edge \in EdgeInputs : UpsertEdge(edge)
    \/ \E vector \in Embeddings : VectorSet(ByIndex(1), vector)
    \/ \E name \in Names : GetNode(name)
    \/ \E index \in 1 .. 2 : GetNodeByIndex(index)
    \/ \E index \in 1 .. 2 : GetEdgeByIndex(index)
    \/ \E vector_id \in VectorIds : VectorGet(vector_id)

SpecLookup == Init /\ [][NextLookup]_vars

\* C21: a lookup of something that is not stored returns the absent marker
\* and does not raise: get_node gives (None, None), get_node_by_index,
\* get_edge_by_index and the vector store's get give None
C21_MissReturnsAbsentMarker ==
    /\ (ret.op = "get_node" /\ get_node_rows(vprops, ret.name) = {})
          => ret.out = [raised |-> NoError, found |-> FALSE, idx |-> NoIndex]
    /\ (ret.op = "get_node_by_index" /\ ret.index \notin DOMAIN vprops)
          => ret.out = [raised |-> NoError, found |-> FALSE]
    /\ (ret.op = "get_edge_by_index" /\ ret.index \notin DOMAIN edges)
          => ret.out = [raised |-> NoError, found |-> FALSE]
    /\ (ret.op = "get" /\ py_str(ret.id) \notin DOMAIN vectors)
          => ret.raised = NoError /\ ret.out = [found |-> FALSE]

C21_Witness ==
    /\ ret.op = "get_edge_by_index"
    /\ ret.index = 2
    /\ DOMAIN edges = {1}
    /\ Cardinality(DOMAIN vprops) = 2
    /\ DOMAIN vectors # {}
    /\ ret.out.raised = NoError

----------------------------------------------------------------------------
(* Concurrent operations of one store over its connection pool *)

\* largest config.pool_size of the runs
MaxPoolSize == 2

\* the tasks that call the store concurrently
Tasks == {"t1", "t2", "t3"}

\* operations: one statement under "async with pool.acquire()" (get, set,
\* delete, ..., execute_query), or an async generator that yields from inside
\* it (get_many, get_all)
Operations == {"get", "get_all"}

\* positions at which the operation a task called is still running
InFlightPcs == {"get_pool", "create_pool", "acquire", "query", "yield"}

\* positions at which a task's operation is over for its caller
Completed == {"done", "raised", "abandoned", "closed"}

\* the tasks holding a connection of some pool
Holders == UNION {pools[p].held : p \in DOMAIN pools}

\* pool.acquire() can hand out a connection: fewer than max_size are out
CanAcquire(p) == Cardinality(pools[p].held) < pools[p].max_size

\* leaving "async with pool.acquire()": the connection goes back to its pool
release_leak(P, p, t) == P
release(P, p, t) == [P EXCEPT ![p].held = @ \ {t}]

InitPool ==
    /\ InitStores
    /\ ins = [pc |-> "off"]
    /\ run = [pc |-> "off"]
    /\ InitEncOff /\ InitWorkspaceOff /\ InitRankOff /\ InitAppOff
    /\ \E n \in 1 .. MaxPoolSize : store = [pool_size |-> n, pool |-> NoPool]
    /\ pools = << >>
    /\ tasks = [t \in Tasks |-> [pc |-> "idle", op |-> "get", pool |-> NoPool,
                                  inner |-> NoPool]]

\* a task calls an operation of the store
Call(t, op) ==
    /\ tasks[t].pc = "idle"
    /\ tasks' = [tasks EXCEPT ![t] = [pc |-> "get_pool", op |-> op, pool |-> NoPool,
                                       inner |-> NoPool]]
    /\ UNCHANGED <<store, pools>>

\* _get_pool: "if not self._pool:" then await asyncpg.create_pool(...), else
\* return self._pool
GetPool(t) ==
    /\ tasks[t].pc = "get_pool"
    /\ tasks' = [tasks EXCEPT ![t] =
                    IF store.pool = NoPool
                    THEN [@ EXCEPT !.pc = "create_pool"]
                    ELSE [@ EXCEPT !.pc = "acquire", !.pool = store.pool]]
    /\ UNCHANGED <<store, pools>>

\* _get_pool: create_pool(min_size=1, max_size=pool_size) returns;
\* self._pool = <the new pool>; return self._pool
PoolCreated(t) ==
    /\ tasks[t].pc = "create_pool"
    /\ pools' = Append(pools, [max_size |-> store.pool_size, held |-> {}])
    /\ store' = [store EXCEPT !.pool = Len(pools) + 1]
    /\ tasks' = [tasks EXCEPT ![t] = [@ EXCEPT !.pc = "acquire", !.pool = Len(pools) + 1]]

\* async with pool.acquire() as conn: waits while max_size connections are out
Acquire(t) ==
    /\ tasks[t].pc = "acquire"
    /\ CanAcquire(tasks[t].pool)
    /\ pools' = [pools EXCEPT ![tasks[t].pool].held = @ \cup {t}]
    /\ tasks' = [tasks EXCEPT ![t].pc = "query"]
    /\ UNCHANGED store

\* the statement returns: get returns and leaves the "async with" block, a
\* generator goes on to yield its rows from inside the block
QueryReturns(t) ==
    /\ tasks[t].pc = "query"
    /\ IF tasks[t].op = "get"
       THEN /\ pools' = release(pools, tasks[t].pool, t)
            /\ tasks' = [tasks EXCEPT ![t].pc = "done"]
       ELSE /\ pools' = pools
            /\ tasks' = [tasks EXCEPT ![t].pc = "yield"]
    /\ UNCHANGED store

\* the statement raises: the exception leaves the "async with" block
QueryRaises(t) ==
    /\ tasks[t].pc = "query"
    /\ pools' = release(pools, tasks[t].pool, t)
    /\ tasks' = [tasks EXCEPT ![t].pc = "raised"]
    /\ UNCHANGED store

\* the consumer of get_many / get_all takes the rows to the end: the generator
\* leaves the "async with" block and finishes
ConsumerExhausts(t) ==
    /\ tasks[t].pc = "yield"
    /\ pools' = release(pools, tasks[t].pool, t)
    /\ tasks' = [tasks EXCEPT ![t].pc = "done"]
    /\ UNCHANGED store

\* the consumer leaves its "async for" early (break, return, exception): the
\* generator stays suspended at its yield, inside the "async with" block
ConsumerStops(t) ==
    /\ tasks[t].pc = "yield"
    /\ tasks' = [tasks EXCEPT ![t].pc = "abandoned"]
    /\ UNCHANGED <<store, pools>>

\* the abandoned generator is finalized (aclose() scheduled by the event loop
\* once the generator object is collected): GeneratorExit leaves the block
GeneratorFinalized(t) ==
    /\ tasks[t].pc = "abandoned"
    /\ pools' = release(pools, tasks[t].pool, t)
    /\ tasks' = [tasks EXCEPT ![t].pc = "closed"]
    /\ UNCHANGED store

\* the steps a task takes by itself once the event loop runs it
TaskStep(t) ==
    \/ GetPool(t)
    \/ PoolCreated(t)
    \/ Acquire(t)
    \/ QueryReturns(t)
    \/ QueryRaises(t)
    \/ ConsumerExhausts(t)
    \/ ConsumerStops(t)

NextPool ==
    /\ \E t \in Tasks :
          \/ \E op \in Operations : Call(t, op)
          \/ TaskStep(t)
          \/ GeneratorFinalized(t)
    /\ UNCHANGED <<graphVars, tableVars, ret, ins, qret, run, enc, workspace, rank, appVars>>

SpecPool == InitPool /\ [][NextPool]_vars

\* the event loop runs every task that can take a step; when an abandoned
\* generator is finalized depends on the consumer and is left unconstrained
SpecPoolFair == SpecPool /\ \A t \in Tasks : WF_vars(TaskStep(t) /\ NextPool)

\* C24: at every moment the connections checked out by the operations of the
\* store number at most pool_size
C24_CheckedOutAtMostPoolSize == Cardinality(Holders) <= store.pool_size

\* every connection of the pool is held by an abandoned generator, which
\* releases it only when it is finalized
HeldByAbandoned(p) ==
    /\ p # NoPool
    /\ ~CanAcquire(p)
    /\ \A h \in pools[p].held : tasks[h].pc = "abandoned"

\* C25: an operation that finds all connections of its pool checked out does
\* not fail: it waits, and it acquires a connection and completes unless every
\* connection of the pool stays with a generator that was never finalized
C25_WaiterCompletes ==
    \A t \in Tasks :
        (tasks[t].pc = "acquire" /\ ~CanAcquire(tasks[t].pool))
            ~> (tasks[t].pc \in Completed \/ HeldByAbandoned(tasks[t].pool))

C25_Witness ==
    \E t \in Tasks :
        /\ tasks[t].pc = "acquire"
        /\ ~CanAcquire(tasks[t].pool)
        /\ pools[tasks[t].pool].max_size = 2

\* the name under which the call a task makes from inside its iteration
\* holds a connection
NestedOf == ("t1" :> "t1.get") @@ ("t2" :> "t2.get") @@ ("t3" :> "t3.get")

\* inside "async for ... in store.get_all()" the consumer calls store.get():
\* _get_pool returns the pool the store has
NestedCall(t) ==
    /\ tasks[t].pc = "yield"
    /\ tasks' = [tasks EXCEPT ![t] = [@ EXCEPT !.pc = "nested_acquire",
                                               !.inner = store.pool]]
    /\ UNCHANGED <<store, pools>>

\* the nested call's "async with pool.acquire()": waits while max_size
\* connections are out, the generator's own among them
NestedAcquire(t) ==
    /\ tasks[t].pc = "nested_acquire"
    /\ CanAcquire(tasks[t].inner)
    /\ pools' = [pools EXCEPT ![tasks[t].inner].held = @ \cup {NestedOf[t]}]
    /\ tasks' = [tasks EXCEPT ![t].pc = "nested_query"]
    /\ UNCHANGED store

\* the nested call returns and the consumer goes on with its iteration
NestedReturns(t) ==
    /\ tasks[t].pc = "nested_query"
    /\ pools' = release(pools, tasks[t].inner, NestedOf[t])
    /\ tasks' = [tasks EXCEPT ![t].pc = "yield"]
    /\ UNCHANGED store

\* the nested call raises: the exception takes the consumer out of its loop
NestedRaises(t) ==
    /\ tasks[t].pc = "nested_query"
    /\ pools' = release(pools, tasks[t].inner, NestedOf[t])
    /\ tasks' = [tasks EXCEPT ![t].pc = "abandoned"]
    /\ UNCHANGED store

\* the steps of a consumer's nested call
NestedStep(t) ==
    \/ NestedCall(t)
    \/ NestedAcquire(t)
    \/ NestedReturns(t)
    \/ NestedRaises(t)

NextConsumer ==
    \/ NextPool
    \/ /\ \E t \in Tasks : NestedStep(t)
       /\ UNCHANGED <<graphVars, tableVars, ret, ins, qret, run, enc, workspace, rank,
                      appVars>>

SpecConsumer == InitPool /\ [][NextConsumer]_vars

\* the event loop runs every task that can take a step, in its operation or
\* in the call it made from inside its iteration
SpecConsumerFair ==
    /\ SpecConsumer
    /\ \A t \in Tasks :
          /\ WF_vars(TaskStep(t) /\ NextPool)
          /\ WF_vars((NestedAcquire(t) \/ NestedReturns(t) \/ NestedRaises(t))
                        /\ NextConsumer)

\* C39: a call the consumer makes from inside its iteration over get_all /
\* get_many is completed
C39_NestedCallCompletes ==
    \A t \in Tasks :
        (tasks[t].pc = "nested_acquire") ~> (tasks[t].pc # "nested_acquire")

\* the state C39 excludes: the nested call waits for a pool all of whose
\* connections belong to generators whose consumers wait in the same way
C39_NoConsumerWaitsOnItself ==
    ~\E t \in Tasks :
        /\ tasks[t].pc = "nested_acquire"
        /\ tasks[t].inner = tasks[t].pool
        /\ pools[tasks[t].pool].held = {t}

\* C38: the store creates at most one connection pool, also when several of
\* its operations are started before any pool exists
C38_AtMostOnePool == Len(pools) <= 1

\* once a pool has been assigned and no creation is under way, every later
\* operation takes the assigned pool and no further pool is created
C38_PoolReusedOnceAssigned ==
    [][(store.pool # NoPool /\ \A t \in Tasks : tasks[t].pc # "create_pool")
          => Len(pools') = Len(pools)]_vars

\* C26: an operation that is over (returned, raised, or left early by the
\* consumer of its rows) holds no connection, and no connection is checked
\* out while no operation is in flight
C26_ReleasedOnEveryExit ==
    /\ \A t \in Tasks : tasks[t].pc \in Completed => t \notin Holders
    /\ (\A t \in Tasks : tasks[t].pc \notin InFlightPcs) => Holders = {}

----------------------------------------------------------------------------
(* GeminiEmbedder: encode, get_embeddings, _batch_texts, _get_embedding *)

\* longest list of texts passed to encode
MaxTexts == 5

\* largest config.batch_size of the runs
MaxBatchSize == 3

\* stop_after_attempt(3) of the retry decorator on _get_single_embedding
StopAfterAttempt == 3

\* the smaller of two numbers
Min(a, b) == IF a < b THEN a ELSE b

\* texts[i:i + batch_size] of _batch_texts (i counts from 0)
texts_slice_rest(texts, i, batch_size) == SubSeq(texts, i + 1, Len(texts))
texts_slice(texts, i, batch_size) ==
    SubSeq(texts, i + 1, Min(i + batch_size, Len(texts)))

\* the elements of a list
Elems(list) == {list[j] : j \in DOMAIN list}

\* the texts whose request is with the executor
Running == {k \in DOMAIN enc.req : enc.req[k] = "running"}

InitEmbed ==
    /\ InitStores
    /\ ins = [pc |-> "off"]
    /\ run = [pc |-> "off"]
    /\ InitPoolOff /\ InitWorkspaceOff /\ InitRankOff /\ InitAppOff
    /\ \E n \in 1 .. MaxBatchSize :
          enc = [pc |-> "idle", batch_size |-> n, texts |-> << >>, i |-> 0,
                 batches |-> << >>, b |-> 0, req |-> << >>, calls |-> << >>,
                 embeddings |-> << >>, since |-> 0]

\* encode(texts) -> get_embeddings(texts) -> _batch_texts(texts); the texts
\* are named by their position
Encode(n) ==
    /\ enc.pc = "idle"
    /\ enc' = [enc EXCEPT !.pc = "batch_texts",
                          !.texts = [k \in 1 .. n |-> k],
                          !.req = [k \in 1 .. n |-> "none"],
                          !.calls = [k \in 1 .. n |-> 0]]

\* _batch_texts: "if not texts: return []", else one pass of the loop over
\* range(0, len(texts), batch_size): append the batch, then sleep if more
\* texts follow, else return the batches
BatchTexts ==
    /\ enc.pc = "batch_texts"
    /\ IF enc.texts = << >>
       THEN enc' = [enc EXCEPT !.pc = "next_batch", !.b = 1]
       ELSE LET batches == Append(enc.batches,
                                  texts_slice(enc.texts, enc.i, enc.batch_size))
            IN  IF enc.i + enc.batch_size < Len(enc.texts)
                THEN enc' = [enc EXCEPT !.pc = "sleep", !.batches = batches]
                ELSE enc' = [enc EXCEPT !.pc = "next_batch", !.batches = batches,
                                        !.b = 1]

\* _batch_texts: asyncio.sleep(delay_between_batches) returns, next i
SleepReturns ==
    /\ enc.pc = "sleep"
    /\ enc' = [enc EXCEPT !.pc = "batch_texts", !.i = @ + enc.batch_size,
                          !.since = @ + 1]

\* get_embeddings: the next batch of the loop: gather starts _get_embedding
\* for each of its texts, each calls _embed_fn once through the executor
StartBatch ==
    /\ enc.pc = "next_batch"
    /\ enc.b <= Len(enc.batches)
    /\ enc' = [enc EXCEPT
                 !.pc = "gather",
                 !.req = [k \in DOMAIN @ |->
                            IF k \in Elems(enc.batches[enc.b]) THEN "running" ELSE @[k]],
                 !.calls = [k \in DOMAIN @ |->
                            IF k \in Elems(enc.batches[enc.b]) THEN @[k] + 1 ELSE @[k]]]

\* _get_embedding: _embed_fn returns a dict with the embedding
RequestReturns(k) ==
    /\ k \in Running
    /\ enc' = [enc EXCEPT !.req[k] = "ok"]

\* _get_embedding: _embed_fn raises (or returns another format): the
\* exception is logged and raised again
RequestRaises(k) ==
    /\ k \in Running
    /\ enc' = [enc EXCEPT !.req[k] = "failed"]

\* get_embeddings: gather returns once every request of the batch returned;
\* embeddings.extend(results)
GatherReturns ==
    /\ enc.pc = "gather"
    /\ \A k \in Elems(enc.batches[enc.b]) : enc.req[k] = "ok"
    /\ enc' = [enc EXCEPT !.pc = "next_batch", !.b = @ + 1,
                          !.embeddings = @ \o enc.batches[enc.b],
                          !.since = 0]

\* get_embeddings: gather raises the first exception of a request, the other
\* requests of the batch go on; the exception is raised again and encode
\* raises EmbeddingError
GatherRaises ==
    /\ enc.pc = "gather"
    /\ \E k \in Elems(enc.batches[enc.b]) : enc.req[k] = "failed"
    /\ enc' = [enc EXCEPT !.pc = "raised"]

\* get_embeddings: after the last batch: "if not embeddings: raise
\* ValueError" (EmbeddingError from encode), else return embeddings
EncodeReturns ==
    /\ enc.pc = "next_batch"
    /\ enc.b > Len(enc.batches)
    /\ enc' = [enc EXCEPT !.pc = IF enc.embeddings = << >> THEN "raised" ELSE "done"]

NextEmbed ==
    /\ \/ \E n \in 0 .. MaxTexts : Encode(n)
       \/ BatchTexts
       \/ SleepReturns
       \/ StartBatch
       \/ \E k \in 1 .. MaxTexts : RequestReturns(k)
       \/ \E k \in 1 .. MaxTexts : RequestRaises(k)
       \/ GatherReturns
       \/ GatherRaises
       \/ EncodeReturns
    /\ UNCHANGED <<graphVars, tableVars, ret, ins, qret, run, poolVars, workspace, rank, appVars>>

SpecEmbed == InitEmbed /\ [][NextEmbed]_vars

\* the position of the batch that holds text k
BatchOf(k) == CHOOSE x \in DOMAIN enc.batches : k \in Elems(enc.batches[x])

\* C27: at most batch_size embedding requests are in flight, and no request
\* of a later batch has been started while a request of an earlier batch has
\* not finished
C27_BatchBoundsRequestsInFlight ==
    enc.pc \in {"gather", "next_batch", "done", "raised"} =>
        /\ Cardinality(Running) <= enc.batch_size
        /\ \A k, m \in DOMAIN enc.req :
              (BatchOf(k) < BatchOf(m) /\ enc.req[m] # "none")
                  => enc.req[k] \in {"ok", "failed"}

C27_Witness ==
    /\ enc.pc = "gather"
    /\ enc.b = 2
    /\ Len(enc.texts) > 2 * enc.batch_size
    /\ Cardinality(Running) = enc.batch_size

\* C34: each batch of requests after the first is started only after a pause
\* that took place since the requests of the batch before it completed
C34_PauseBetweenBatchesOfRequests ==
    [][(StartBatch /\ enc.b > 1) => enc.since >= 1]_vars

\* every pause the embedder takes lies before its first request
C34_PausesBeforeFirstRequest ==
    enc.pc = "sleep" => \A k \in DOMAIN enc.req : enc.req[k] = "none"

\* C28: encode raises only after some text's request was made
\* stop_after_attempt times and failed each time
C28_EncodeFailsOnlyAfterRetries ==
    (enc.pc = "raised" /\ enc.texts # << >>) =>
        \E k \in DOMAIN enc.req :
            enc.req[k] = "failed" /\ enc.calls[k] = StopAfterAttempt

----------------------------------------------------------------------------
(* Workspace: bounded retention of checkpoints *)

\* GraphRAG.n_checkpoints, passed as keep_n to Workspace.new
n_checkpoints == 5

\* most commits of a run
MaxCommits == 7

\* the oldest checkpoints in excess of keep_n are deleted
prune_newest(checkpoints, keep_n) == SubSeq(checkpoints, 1, Min(Len(checkpoints), keep_n))
prune(checkpoints, keep_n) ==
    IF Len(checkpoints) > keep_n
    THEN SubSeq(checkpoints, Len(checkpoints) - keep_n + 1, Len(checkpoints))
    ELSE checkpoints

\* Workspace.new(path, keep_n): no checkpoint yet
InitWorkspace ==
    /\ InitStores
    /\ ins = [pc |-> "off"]
    /\ run = [pc |-> "off"]
    /\ InitPoolOff /\ InitEncOff /\ InitRankOff /\ InitAppOff
    /\ \E n \in 1 .. n_checkpoints :
          workspace = [pc |-> "new", keep_n |-> n, checkpoints |-> << >>,
                       current |-> 0, commits |-> 0]

\* a successful commit: the staged checkpoint gets the next sequence number,
\* "current" is advanced to it, the oldest excess checkpoints are deleted
Commit ==
    /\ workspace.pc # "off"
    /\ workspace.commits < MaxCommits
    /\ workspace' = [workspace EXCEPT
                       !.pc = "committed",
                       !.commits = @ + 1,
                       !.current = workspace.commits + 1,
                       !.checkpoints = prune(Append(@, workspace.commits + 1),
                                             workspace.keep_n)]

\* a store's write phase fails: the staged checkpoint is discarded, "current"
\* and the retained checkpoints stay
CommitFails ==
    /\ workspace.pc # "off"
    /\ workspace' = [workspace EXCEPT !.pc = "discarded"]

\* rollback repoints "current" to a retained older checkpoint
Rollback(c) ==
    /\ workspace.pc # "off"
    /\ c \in Elems(workspace.checkpoints)
    /\ c < workspace.current
    /\ workspace' = [workspace EXCEPT !.pc = "rolled_back", !.current = c]

NextWorkspace ==
    /\ \/ Commit
       \/ CommitFails
       \/ \E c \in 1 .. MaxCommits : Rollback(c)
    /\ UNCHANGED <<graphVars, tableVars, ret, ins, qret, run, poolVars, enc, rank, appVars>>

SpecWorkspace == InitWorkspace /\ [][NextWorkspace]_vars

----------------------------------------------------------------------------
(* RankingPolicy_TopK *)

\* most candidates of a ranking
MaxCandidates == 3

\* largest top_k of the runs
MaxTopK == 4

\* the scores a candidate can have
Scores == {1, 2, 3}

\* the lists of candidate scores
ScoreLists == UNION {[1 .. n -> Scores] : n \in 0 .. MaxCandidates}

\* among the candidates left, the first one with the highest score
last_best(scores, left) ==
    CHOOSE c \in left : \A d \in left :
        scores[c] > scores[d] \/ (scores[c] = scores[d] /\ c >= d)
first_best(scores, left) ==
    CHOOSE c \in left : \A d \in left :
        scores[c] > scores[d] \/ (scores[c] = scores[d] /\ c <= d)

\* the k highest-scoring candidates (by position in the candidate list),
\* best first
RECURSIVE TopKLoop(_, _, _, _)
TopKLoop(scores, left, k, out) ==
    IF k = 0 \/ left = {} THEN out
    ELSE LET c == first_best(scores, left)
         IN  TopKLoop(scores, left \ {c}, k - 1, Append(out, c))

TopK(scores, k) == TopKLoop(scores, DOMAIN scores, k, << >>)

InitTopK ==
    /\ InitStores
    /\ ins = [pc |-> "off"]
    /\ run = [pc |-> "off"]
    /\ InitPoolOff /\ InitEncOff /\ InitWorkspaceOff /\ InitAppOff
    /\ \E scores \in ScoreLists, k \in 0 .. MaxTopK :
          rank = [pc |-> "candidates", scores |-> scores, top_k |-> k, out |-> << >>]

\* the policy is applied to the scored candidates
Rank ==
    /\ rank.pc = "candidates"
    /\ rank' = [rank EXCEPT !.pc = "ranked", !.out = TopK(rank.scores, rank.top_k)]

NextTopK ==
    /\ Rank
    /\ UNCHANGED <<graphVars, tableVars, ret, ins, qret, run, poolVars, enc, workspace, appVars>>

SpecTopK == InitTopK /\ [][NextTopK]_vars

\* C30: TopK(k) returns min(k, n) different candidates of the n given; every
\* returned one scores higher than every other one, or equal and comes
\* earlier in the candidate list; the result is ordered the same way
C30_TopKHighestStable ==
    rank.pc = "ranked" =>
        LET scores == rank.scores
            out == rank.out
            chosen == Elems(out)
            Before(c, d) == scores[c] > scores[d] \/ (scores[c] = scores[d] /\ c < d)
        IN  /\ Len(out) = Min(rank.top_k, Len(scores))
            /\ chosen \subseteq DOMAIN scores
            /\ Cardinality(chosen) = Len(out)
            /\ \A c \in chosen : \A d \in DOMAIN scores \ chosen : Before(c, d)
            /\ \A x, y \in DOMAIN out : x < y => Before(out[x], out[y])
            /\ rank.top_k = 0 => out = << >>

C30_Witness ==
    /\ rank.pc = "ranked"
    /\ rank.top_k = 2
    /\ rank.scores = <<2, 3, 2>>
    /\ rank.out = <<2, 1>>

----------------------------------------------------------------------------
(* Claims about re-upserts and deletion on the graph store *)

\* the attributes a stored node carries: its properties and the keys of its data
Attributes(props) == DOMAIN props \cup DOMAIN props.data

\* C31: an upsert_node on a name already present returns the Index the name
\* has, and every attribute the stored node had before is still on it
C31_ReupsertKeepsAttributes ==
    [][\A node \in NodeInputs :
          (UpsertNode(node) /\ MatchNodes(vprops, node.name) # {}) =>
              /\ ret'.idx = firstIdx[node.name]
              /\ Attributes(vprops[ret'.idx]) \subseteq Attributes(vprops'[ret'.idx])]_vars

\* the Index returned by a re-upsert is the one the name has (the part of C31
\* that the store keeps)
C31_ReupsertReturnsExistingIndex ==
    [][\A node \in NodeInputs :
          (UpsertNode(node) /\ MatchNodes(vprops, node.name) # {}) =>
              /\ ret'.idx = firstIdx[node.name]
              /\ DOMAIN vprops[ret'.idx] \subseteq DOMAIN vprops'[ret'.idx]]_vars

\* at most one stored edge per ordered pair of vertices
C40_OneEdgePerPair ==
    \A e1, e2 \in DOMAIN edges :
        (edges[e1].s = edges[e2].s /\ edges[e1].t = edges[e2].t) => e1 = e2

\* an upsert_edge for a pair that has an edge returns that edge's Index, puts
\* the new type and data on it and leaves the edges and edge_count() as they are
C40_ReupsertReplaces ==
    [][\A edge \in EdgeInputs :
          (UpsertEdge(edge) /\ EndpointsExist(vprops, edge)) =>
              LET p == FirstPair(upsert_edge_pairs(vprops, edge))
              IN  MatchEdges(edges, p[1], p[2]) # {} =>
                      /\ ret'.raised = NoError
                      /\ MatchEdges(edges, p[1], p[2]) = {ret'.idx}
                      /\ edges'[ret'.idx].props = edge_data(edge)
                      /\ DOMAIN edges' = DOMAIN edges
                      /\ \A e \in DOMAIN edges \ {ret'.idx} : edges'[e] = edges[e]
                      /\ edge_count(edges') = edge_count(edges)]_vars

\* C40: after any sequence of upsert_edge and insert_edges calls there is at
\* most one edge per ordered (source, target) pair, and a further upsert for a
\* pair that has an edge returns its Index, replaces its type and data and
\* leaves edge_count() unchanged
C40_OneEdgePerOrderedPair == []C40_OneEdgePerPair /\ C40_ReupsertReplaces

C40_Witness ==
    /\ ret.op = "upsert_edge"
    /\ ret.raised = NoError
    /\ ret.idx = 1
    /\ nextEid = 3
    /\ ret.edge.type = "visits"
    /\ edges[1].props = edge_data(ret.edge)

\* C33: delete_edges_by_index(indices) returns, afterwards
\* get_edge_by_index gives None for every listed Index, the edges not listed
\* are as before and node_count() is as before; and no call of the graph
\* store removes a node
C33_DeleteRemovesListedEdgesOnly ==
    [][/\ \A indices \in DeleteBatches :
             DeleteEdgesByIndex(indices) =>
                 /\ ret'.raised = NoError
                 /\ \A i \in indices :
                       get_edge_by_index(edges', i) = [raised |-> NoError, found |-> FALSE]
                 /\ \A e \in DOMAIN edges \ indices :
                       e \in DOMAIN edges' /\ edges'[e] = edges[e]
                 /\ node_count(vprops') = node_count(vprops)
       /\ DOMAIN vprops \subseteq DOMAIN vprops']_vars

\* the part of C33 the store keeps: no transition removes a node
C33_NoNodeRemoved == [][DOMAIN vprops \subseteq DOMAIN vprops']_vars

----------------------------------------------------------------------------
(* GraphRAG.__post_init__ and create_storage_backend *)

\* the parameters of create_storage_backend, none of which has a default
create_storage_backend_params ==
    {"storage_type", "storage_options", "embedding_dim", "entity_cls", "relation_cls"}

\* the keywords __post_init__ passes to create_storage_backend
post_init_keywords(storage_type) ==
    {"storage_type", "working_dir", "pg_host", "pg_port", "pg_database", "pg_user",
     "pg_password", "embedding_dim", "entity_cls", "relation_cls"}
        \cup (IF storage_type = "file" THEN {"graph_config"} ELSE {})

\* a Python call by keywords: an unexpected keyword or a missing required
\* parameter raises TypeError before the body runs
py_call(params, keywords) ==
    IF keywords \subseteq params /\ params \subseteq keywords THEN NoError ELSE "TypeError"

\* int(os.getenv("PG_PORT", "5432")), evaluated as an argument of the call
pg_port(env) == IF env = "fast" THEN "ValueError" ELSE NoError

\* the backend create_storage_backend returns for a storage_type
create_storage_backend(storage_type) ==
    IF storage_type = "postgres" THEN "postgres" ELSE "file"

\* __post_init__: the arguments are evaluated, create_storage_backend is
\* called, then the state manager is built over the stores it returned
post_init(storage_type, env) ==
    IF pg_port(env) # NoError
    THEN [raised |-> pg_port(env), state_manager |-> "none"]
    ELSE IF py_call(create_storage_backend_params, post_init_keywords(storage_type)) # NoError
    THEN [raised |-> "TypeError", state_manager |-> "none"]
    ELSE [raised |-> NoError, state_manager |-> create_storage_backend(storage_type)]

InitGraphRAG ==
    /\ InitStores
    /\ ins = [pc |-> "off"]
    /\ run = [pc |-> "off"]
    /\ InitPoolOff /\ InitEncOff /\ InitWorkspaceOff /\ InitRankOff
    /\ blob = [pc |-> "off"]
    /\ \E t \in {"file", "postgres", "sqlite"},
          e \in {"unset", "5432", "fast"},     \* PG_PORT: not set, a number, not one
          d \in {"./test_workspace", "./test_workspace_pg"},
          n \in 1 .. n_checkpoints :
          rag = [pc |-> "call", storage_type |-> t, PG_PORT |-> e, working_dir |-> d,
                 n_checkpoints |-> n, raised |-> NoError, state_manager |-> "none"]

\* GraphRAG(working_dir=..., storage_type=..., ...): the dataclass __init__
\* runs __post_init__
Construct ==
    /\ rag.pc = "call"
    /\ LET r == post_init(rag.storage_type, rag.PG_PORT)
       IN  rag' = [rag EXCEPT !.pc = "returned", !.raised = r.raised,
                              !.state_manager = r.state_manager]

NextGraphRAG ==
    /\ Construct
    /\ UNCHANGED <<graphVars, tableVars, ret, ins, qret, run, poolVars, enc, workspace,
                   rank, blob>>

SpecGraphRAG == InitGraphRAG /\ [][NextGraphRAG]_vars

\* C32: constructing GraphRAG with storage_type "file" or "postgres" does not
\* raise and leaves a state manager over the stores of that backend
C32_ConstructionCompletes ==
    (rag.pc = "returned" /\ rag.storage_type \in {"file", "postgres"}
                         /\ rag.PG_PORT \in {"unset", "5432"}) =>
        /\ rag.raised = NoError
        /\ rag.state_manager = rag.storage_type

----------------------------------------------------------------------------
(* PostgresBlobStorage *)

\* the blobs handed to set
Blobs == {"graph a", "graph b", "graph c"}

\* pickle.dumps / pickle.loads
pickle_dumps(b) == [pickle |-> b]
pickle_loads(data) == data.pickle

\* _insert_start: without a pool, create it and CREATE TABLE IF NOT EXISTS
\* blobs; then _in_progress = True
blob_insert_start(s) ==
    IF ~s.pool
    THEN [s EXCEPT !.pool = TRUE, !.table = TRUE, !.in_progress = TRUE]
    ELSE [s EXCEPT !.in_progress = TRUE]

\* _query_start: without a pool, create it; then _in_progress = True
blob_query_start(s) == [s EXCEPT !.pool = TRUE, !.in_progress = TRUE]

\* get: _query_start without a pool, then SELECT data FROM blobs WHERE id = 1
\* and pickle.loads of the row, None without a row
blob_get(s) ==
    LET q == IF ~s.pool THEN blob_query_start(s) ELSE s
    IN  IF ~q.table
        THEN [q EXCEPT !.op = "get", !.raised = "UndefinedTableError"]
        ELSE [q EXCEPT !.op = "get", !.raised = NoError,
                       !.out = IF q.data = NoValue THEN NoValue
                               ELSE [found |-> TRUE, value |-> pickle_loads(q.data.bytes)]]

\* set: _insert_start without a pool, then INSERT INTO blobs (id, data) VALUES
\* (1, $1) ON CONFLICT (id) DO UPDATE SET data = EXCLUDED.data
blob_set(s, b) ==
    LET i == IF ~s.pool THEN blob_insert_start(s) ELSE s
    IN  IF ~i.table
        THEN [i EXCEPT !.op = "set", !.arg = b, !.raised = "UndefinedTableError"]
        ELSE [i EXCEPT !.op = "set", !.arg = b, !.raised = NoError,
                       !.data = [found |-> TRUE, bytes |-> pickle_dumps(b)]]

\* a new store instance over a database that has no blobs table yet, or has
\* one from an earlier process, empty or with a blob
InitBlob ==
    /\ InitStores
    /\ ins = [pc |-> "off"]
    /\ run = [pc |-> "off"]
    /\ InitPoolOff /\ InitEncOff /\ InitWorkspaceOff /\ InitRankOff
    /\ rag = [pc |-> "off"]
    /\ \E t \in BOOLEAN, d \in {NoValue} \cup {[found |-> TRUE, bytes |-> pickle_dumps(b)] : b \in Blobs} :
          /\ ~t => d = NoValue
          /\ blob = [pc |-> "on", pool |-> FALSE, in_progress |-> FALSE, table |-> t,
                     data |-> d, op |-> "init", arg |-> "", out |-> NoValue,
                     raised |-> NoError]

\* await storage._insert_start()
BlobInsertStart ==
    /\ blob.pc = "on"
    /\ blob' = [blob_insert_start(blob) EXCEPT !.op = "_insert_start", !.raised = NoError]
    /\ UNCHANGED <<graphVars, tableVars, ret, ins, qret, run, poolVars, enc, workspace,
                   rank, rag>>

\* await storage._insert_done()
BlobInsertDone ==
    /\ blob.pc = "on"
    /\ blob' = [blob EXCEPT !.in_progress = FALSE, !.op = "_insert_done",
                            !.raised = NoError]
    /\ UNCHANGED <<graphVars, tableVars, ret, ins, qret, run, poolVars, enc, workspace,
                   rank, rag>>

\* await storage._query_start()
BlobQueryStart ==
    /\ blob.pc = "on"
    /\ blob' = [blob_query_start(blob) EXCEPT !.op = "_query_start", !.raised = NoError]
    /\ UNCHANGED <<graphVars, tableVars, ret, ins, qret, run, poolVars, enc, workspace,
                   rank, rag>>

\* await storage._query_done()
BlobQueryDone ==
    /\ blob.pc = "on"
    /\ blob' = [blob EXCEPT !.in_progress = FALSE, !.op = "_query_done",
                            !.raised = NoError]
    /\ UNCHANGED <<graphVars, tableVars, ret, ins, qret, run, poolVars, enc, workspace,
                   rank, rag>>

\* await storage.get()
BlobGet ==
    /\ blob.pc = "on"
    /\ blob' = blob_get(blob)
    /\ UNCHANGED <<graphVars, tableVars, ret, ins, qret, run, poolVars, enc, workspace,
                   rank, rag>>

\* await storage.set(b)
BlobSet(b) ==
    /\ blob.pc = "on"
    /\ blob' = blob_set(blob, b)
    /\ UNCHANGED <<graphVars, tableVars, ret, ins, qret, run, poolVars, enc, workspace,
                   rank, rag>>

NextBlob ==
    \/ BlobInsertStart
    \/ BlobInsertDone
    \/ BlobQueryStart
    \/ BlobQueryDone
    \/ BlobGet
    \/ \E b \in Blobs : BlobSet(b)

SpecBlob == InitBlob /\ [][NextBlob]_vars

\* C37: set(b) returns, and a get() that follows it returns b, whatever calls
\* came before
C37_SetThenGetReturnsBlob ==
    blob.op = "set" =>
        /\ blob.raised = NoError
        /\ blob_get(blob).raised = NoError
        /\ blob_get(blob).out = [found |-> TRUE, value |-> blob.arg]

\* the part of C37 the store keeps: when the blobs table exists, or when no
\* pool was created before the first _insert_start or set
C37_SetThenGetWhenTableExists ==
    (blob.op = "set" /\ blob.table) =>
        /\ blob.raised = NoError
        /\ blob_get(blob).out = [found |-> TRUE, value |-> blob.arg]

====
